---- MODULE Spec2Model ----
(***************************************************************************)
(* Model of the NimbleBrain TypeScript SDK.                                *)
(*                                                                         *)
(* The core is MessagesAPI.stream (the SSE decoder of the SDK wrapper):    *)
(* an async generator that issues one fetch, acquires a reader on the      *)
(* response body and turns the text chunks it reads into StreamEvents.     *)
(*                                                                         *)
(* JavaScript strings are sequences of one-character strings, so that      *)
(* String.split, startsWith, replace(/^event:\s*/, '') and JSON.parse act  *)
(* on characters, and a chunk boundary can fall at any character.          *)
(***************************************************************************)
EXTENDS Integers, Sequences, FiniteSets, TLC

(***************************************************************************)
(* Bounds of the model.                                                    *)
(***************************************************************************)
\* most frames the server sends in one response
MaxFrames == 2
\* most selectAgent calls, sendMessage calls, and events of one stream, that
\* the model of the demo App follows
MaxSelects == 2
MaxSends == 1
MaxEvents == 2
\* most requests the model of the demo proxy follows
MaxRequests == 2
\* most get calls of one waitForCompletion the model follows
MaxPolls == 3
\* longest time a get call takes, and longest delay of a timer beyond its
\* interval
MaxLatency == 1
\* longest chunk reader.read() delivers, short of "everything still to come"
MaxChunkLen == 2

(***************************************************************************)
(* String literals of the source, as character sequences.                  *)
(***************************************************************************)
NL == "\n"
EventPrefix == <<"e", "v", "e", "n", "t", ":">>
DataPrefix == <<"d", "a", "t", "a", ":">>
FrameDelimiter == <<NL, NL>>
LineDelimiter == <<NL>>
DoneType == <<"d", "o", "n", "e">>
ContentType == <<"c", "o", "n", "t", "e", "n", "t">>
ToolCompleteType == <<"t", "o", "o", "l", ".", "c", "o", "m", "p", "l", "e", "t", "e">>
RawKey == <<"r", "a", "w">>
MessageStartType == <<"m", "e", "s", "s", "a", "g", "e", ".", "s", "t", "a", "r", "t">>
ToolStartType == <<"t", "o", "o", "l", ".", "s", "t", "a", "r", "t">>
MessageCompleteType ==
  <<"m", "e", "s", "s", "a", "g", "e", ".", "c", "o", "m", "p", "l", "e", "t", "e">>
ErrorType == <<"e", "r", "r", "o", "r">>

\* the union type of StreamEvent.type
EventKinds ==
  {MessageStartType, ContentType, ToolStartType, ToolCompleteType,
   MessageCompleteType, ErrorType, DoneType}

(***************************************************************************)
(* String primitives of the JavaScript runtime.                            *)
(***************************************************************************)
\* the substring d occurs in s at index i
MatchAt(s, d, i) ==
  /\ i + Len(d) - 1 <= Len(s)
  /\ \A k \in 1..Len(d) : s[i + k - 1] = d[k]

\* String.prototype.startsWith
StartsWith(s, p) == MatchAt(s, p, 1)

\* String.prototype.split(separator): the pieces between the occurrences of
\* the separator, found left to right without overlap; start is the index
\* where the current piece begins and i the index being scanned
RECURSIVE SplitFrom(_, _, _, _)
SplitFrom(s, d, start, i) ==
  IF i + Len(d) - 1 > Len(s)
    THEN <<SubSeq(s, start, Len(s))>>
    ELSE IF MatchAt(s, d, i)
      THEN <<SubSeq(s, start, i - 1)>> \o SplitFrom(s, d, i + Len(d), i + Len(d))
      ELSE SplitFrom(s, d, start, i + 1)

Split(s, d) == SplitFrom(s, d, 1, 1)

\* Array.prototype.join(separator)
RECURSIVE Join(_, _)
Join(parts, d) ==
  IF Len(parts) = 0 THEN <<>>
  ELSE IF Len(parts) = 1 THEN parts[1]
  ELSE parts[1] \o d \o Join(Tail(parts), d)

\* the characters the regular expression class \s matches
IsSpace(c) == c \in {" ", "\t", "\n", "\r", "\f"}

\* index of the first character of s at or after i that is not white space
RECURSIVE SkipSpace(_, _)
SkipSpace(s, i) ==
  IF i <= Len(s) /\ IsSpace(s[i]) THEN SkipSpace(s, i + 1) ELSE i

\* line.replace(/^<prefix>\s*/, '') for a line that starts with the prefix
StripPrefix(line, prefix) ==
  SubSeq(line, SkipSpace(line, Len(prefix) + 1), Len(line))

(***************************************************************************)
(* JSON values, and JSON.parse on the grammar the payloads of this model   *)
(* use: objects, arrays, strings with the two-character escapes, integers, *)
(* literals.                                                               *)
(***************************************************************************)
JObject(members) == [kind |-> "object", members |-> members]
JArray(items) == [kind |-> "array", items |-> items]
JString(chars) == [kind |-> "string", chars |-> chars]
JNumber(digits) == [kind |-> "number", digits |-> digits]
JLiteral(name) == [kind |-> "literal", name |-> name]
JMember(key, value) == [key |-> key, value |-> value]
EmptyObject == JObject(<<>>)

ParseFail == [ok |-> FALSE]
ParseOk(value, next) == [ok |-> TRUE, value |-> value, next |-> next]

IsJsonSpace(c) == c \in {" ", "\t", "\n", "\r"}
IsDigit(c) == c \in {"0", "1", "2", "3", "4", "5", "6", "7", "8", "9"}

RECURSIVE SkipJsonSpace(_, _)
SkipJsonSpace(s, i) ==
  IF i <= Len(s) /\ IsJsonSpace(s[i]) THEN SkipJsonSpace(s, i + 1) ELSE i

\* index just after the run of digits that starts at i
RECURSIVE SkipDigits(_, _)
SkipDigits(s, i) ==
  IF i <= Len(s) /\ IsDigit(s[i]) THEN SkipDigits(s, i + 1) ELSE i

\* the characters that may follow a backslash in a string, \u apart
EscapeLetters == {"\"", "\\", "/", "n", "t", "r"}

\* the character an escape stands for
Unescaped(c) ==
  IF c = "n" THEN "\n" ELSE IF c = "t" THEN "\t" ELSE IF c = "r" THEN "\r" ELSE c

\* index of the closing quote of the string whose first character is at i,
\* 0 when the string is not closed or holds a character JSON forbids there
RECURSIVE StringEnd(_, _)
StringEnd(s, i) ==
  IF i > Len(s) THEN 0
  ELSE IF s[i] = "\"" THEN i
  ELSE IF s[i] = "\\"
    THEN IF i + 1 <= Len(s) /\ s[i + 1] \in EscapeLetters
           THEN StringEnd(s, i + 2)
           ELSE 0
  ELSE IF s[i] \in {"\n", "\t", "\r"} THEN 0
  ELSE StringEnd(s, i + 1)

\* the characters of a string from its text between the quotes
RECURSIVE Unescape(_)
Unescape(s) ==
  IF s = <<>> THEN <<>>
  ELSE IF s[1] = "\\" THEN <<Unescaped(s[2])>> \o Unescape(SubSeq(s, 3, Len(s)))
  ELSE <<s[1]>> \o Unescape(Tail(s))

ParseString(s, i) ==
  IF i <= Len(s) /\ s[i] = "\""
    THEN LET e == StringEnd(s, i + 1)
         IN IF e = 0 THEN ParseFail
            ELSE ParseOk(JString(Unescape(SubSeq(s, i + 1, e - 1))), e + 1)
    ELSE ParseFail

ParseNumber(s, i) ==
  LET d == IF i <= Len(s) /\ s[i] = "-" THEN i + 1 ELSE i
      e == SkipDigits(s, d)
  IN IF e = d THEN ParseFail
     ELSE IF s[d] = "0" /\ e > d + 1 THEN ParseFail
     ELSE ParseOk(JNumber(SubSeq(s, i, e - 1)), e)

ParseLiteral(s, i) ==
  IF MatchAt(s, <<"n", "u", "l", "l">>, i) THEN ParseOk(JLiteral("null"), i + 4)
  ELSE IF MatchAt(s, <<"t", "r", "u", "e">>, i) THEN ParseOk(JLiteral("true"), i + 4)
  ELSE IF MatchAt(s, <<"f", "a", "l", "s", "e">>, i) THEN ParseOk(JLiteral("false"), i + 5)
  ELSE ParseFail

RECURSIVE ParseValue(_, _)
RECURSIVE ParseMembers(_, _, _)
RECURSIVE ParseItems(_, _, _)

\* the members of an object after its opening brace or after a comma
ParseMembers(s, i, acc) ==
  LET k == ParseString(s, SkipJsonSpace(s, i))
  IN IF ~k.ok THEN ParseFail
     ELSE LET c == SkipJsonSpace(s, k.next)
          IN IF ~(c <= Len(s) /\ s[c] = ":") THEN ParseFail
             ELSE LET v == ParseValue(s, c + 1)
                  IN IF ~v.ok THEN ParseFail
                     ELSE LET n == SkipJsonSpace(s, v.next)
                              acc2 == Append(acc, JMember(k.value.chars, v.value))
                          IN IF n > Len(s) THEN ParseFail
                             ELSE IF s[n] = "}" THEN ParseOk(JObject(acc2), n + 1)
                             ELSE IF s[n] = "," THEN ParseMembers(s, n + 1, acc2)
                             ELSE ParseFail

\* the items of an array after its opening bracket or after a comma
ParseItems(s, i, acc) ==
  LET v == ParseValue(s, i)
  IN IF ~v.ok THEN ParseFail
     ELSE LET n == SkipJsonSpace(s, v.next)
              acc2 == Append(acc, v.value)
          IN IF n > Len(s) THEN ParseFail
             ELSE IF s[n] = "]" THEN ParseOk(JArray(acc2), n + 1)
             ELSE IF s[n] = "," THEN ParseItems(s, n + 1, acc2)
             ELSE ParseFail

ParseValue(s, i) ==
  LET j == SkipJsonSpace(s, i)
  IN IF j > Len(s) THEN ParseFail
     ELSE IF s[j] = "{"
       THEN LET n == SkipJsonSpace(s, j + 1)
            IN IF n <= Len(s) /\ s[n] = "}" THEN ParseOk(EmptyObject, n + 1)
               ELSE ParseMembers(s, j + 1, <<>>)
     ELSE IF s[j] = "["
       THEN LET n == SkipJsonSpace(s, j + 1)
            IN IF n <= Len(s) /\ s[n] = "]" THEN ParseOk(JArray(<<>>), n + 1)
               ELSE ParseItems(s, j + 1, <<>>)
     ELSE IF s[j] = "\"" THEN ParseString(s, j)
     ELSE IF s[j] = "-" \/ IsDigit(s[j]) THEN ParseNumber(s, j)
     ELSE ParseLiteral(s, j)

\* JSON.parse(text): one value surrounded by white space and nothing else;
\* ok = FALSE stands for the SyntaxError it throws
JSONParse(s) ==
  LET v == ParseValue(s, 1)
  IN IF v.ok /\ SkipJsonSpace(s, v.next) > Len(s) THEN v ELSE ParseFail

(***************************************************************************)
(* What the server sends.  A frame is a list of lines, a line is a field   *)
(* name, a colon, optional white space and a value; frames are rendered to *)
(* text and each is terminated by a blank line.                            *)
(***************************************************************************)
SseLine(field, sep, value) == [field |-> field, sep |-> sep, value |-> value]
EventLine(sep, type) == SseLine(<<"e", "v", "e", "n", "t">>, sep, type)
DataLine(sep, payload) == SseLine(<<"d", "a", "t", "a">>, sep, payload)

IsEventLine(l) == l.field = <<"e", "v", "e", "n", "t">>
IsDataLine(l) == l.field = <<"d", "a", "t", "a">>

\* payloads: an empty object, an object with one member, text that is not JSON
PayloadEmpty == <<"{", "}">>
PayloadMember == <<"{", "\"", "a", "\"", ":", "1", "}">>
PayloadMalformed == <<"x", "{">>

\* event: content / data: {"a":1}
FrameContent == <<EventLine(<<" ">>, ContentType), DataLine(<<" ">>, PayloadMember)>>
\* event: done / data: {}
FrameDone == <<EventLine(<<" ">>, DoneType), DataLine(<<" ">>, PayloadEmpty)>>
\* event:tool.complete, no data line
FrameBareEvent == <<EventLine(<<>>, ToolCompleteType)>>
\* event: done, no data line
FrameBareDone == <<EventLine(<<" ">>, DoneType)>>
\* event:content / data:x{
FrameMalformed == <<EventLine(<<>>, ContentType), DataLine(<<>>, PayloadMalformed)>>
\* data: {}, no event line
FrameUntyped == <<DataLine(<<" ">>, PayloadEmpty)>>

FrameSet ==
  {FrameContent, FrameDone, FrameBareEvent, FrameBareDone, FrameMalformed, FrameUntyped}

\* further payloads: a number and an array, which are JSON but not objects,
\* and the two halves of an object that is spread over two data: lines
PayloadNumber == <<"1">>
PayloadArray == <<"[", "]">>
PayloadOpen == <<"{", "\"", "a", "\"", ":">>
PayloadClose == <<"1", "}">>

\* lines that are neither event: nor data: lines
IdLine == SseLine(<<"i", "d">>, <<" ">>, <<"7">>)
CommentLine == SseLine(<<>>, <<>>, <<"k", "a">>)
PingType == <<"p", "i", "n", "g">>

\* event:content / data:{} / event:tool.complete
FrameEventAfterData ==
  <<EventLine(<<>>, ContentType), DataLine(<<>>, PayloadEmpty),
    EventLine(<<>>, ToolCompleteType)>>
\* event: with an empty value / data:{}
FrameEmptyType == <<EventLine(<<" ">>, <<>>), DataLine(<<>>, PayloadEmpty)>>
\* data:{"a": / data:1}
FrameTwoData == <<DataLine(<<>>, PayloadOpen), DataLine(<<>>, PayloadClose)>>
\* data:x{ / data:x{
FrameTwoDataRaw == <<DataLine(<<>>, PayloadMalformed), DataLine(<<>>, PayloadMalformed)>>
\* id: 7 / event:done / :ka / data:{}
FrameWithOther ==
  <<IdLine, EventLine(<<>>, DoneType), CommentLine, DataLine(<<>>, PayloadEmpty)>>
\* :ka
FrameOnlyComment == <<CommentLine>>
\* event:ping / data:{}
FrameUnknownType == <<EventLine(<<>>, PingType), DataLine(<<>>, PayloadEmpty)>>
\* data:1
FrameNumber == <<DataLine(<<>>, PayloadNumber)>>
\* data:[]
FrameArray == <<DataLine(<<>>, PayloadArray)>>

\* the frames of the specification that exercises the parsing of a frame
ShapeSet ==
  {FrameEventAfterData, FrameEmptyType, FrameTwoData, FrameTwoDataRaw,
   FrameWithOther, FrameOnlyComment, FrameUnknownType, FrameNumber, FrameArray,
   FrameUntyped}

\* text after the last delimiter that the server may send before it closes:
\* nothing, or the start of a frame that is never terminated
TailSet == {<<>>, <<"d", "a", "t", "a", ":", "{", "}", NL>>}

RenderLine(l) == l.field \o <<":">> \o l.sep \o l.value

RECURSIVE RenderLines(_)
RenderLines(ls) ==
  IF Len(ls) = 0 THEN <<>>
  ELSE IF Len(ls) = 1 THEN RenderLine(ls[1])
  ELSE RenderLine(ls[1]) \o <<NL>> \o RenderLines(Tail(ls))

RenderFrame(f) == RenderLines(f) \o FrameDelimiter

RECURSIVE RenderFrames(_)
RenderFrames(fs) ==
  IF Len(fs) = 0 THEN <<>> ELSE RenderFrame(fs[1]) \o RenderFrames(Tail(fs))

\* all sequences of at most n elements of S
RECURSIVE SeqsUpTo(_, _)
SeqsUpTo(S, n) ==
  IF n = 0 THEN {<<>>}
  ELSE LET shorter == SeqsUpTo(S, n - 1)
       IN shorter \cup {Append(q, x) : q \in {r \in shorter : Len(r) = n - 1}, x \in S}

\* the responses fetch may resolve with
OkResponse == [ok |-> TRUE, status |-> 200, hasBody |-> TRUE, text |-> ""]
NoBodyResponse == [ok |-> TRUE, status |-> 200, hasBody |-> FALSE, text |-> ""]
RejectedResponses ==
  {[ok |-> FALSE, status |-> st, hasBody |-> TRUE, text |-> t] :
     st \in {401, 500}, t \in {"Unauthorized", ""}}
Responses == {OkResponse, NoBodyResponse} \cup RejectedResponses

\* the errors the platform may reject fetch or reader.read() with
TransportErrors == {<<"network error">>, <<"aborted">>}
NoError == <<>>

(***************************************************************************)
(* The decoding of one frame, lines 256-281 of the stream generator.       *)
(***************************************************************************)
\* a decoder in which the first event: line of a frame wins
RECURSIVE ScanLinesFirstWins(_, _, _)
ScanLinesFirstWins(lines, i, acc) ==
  IF i > Len(lines) THEN acc
  ELSE IF StartsWith(lines[i], EventPrefix)
    THEN ScanLinesFirstWins(lines, i + 1,
           IF acc.hasType THEN acc
           ELSE [acc EXCEPT !.hasType = TRUE,
                            !.eventType = StripPrefix(lines[i], EventPrefix)])
  ELSE IF StartsWith(lines[i], DataPrefix)
    THEN ScanLinesFirstWins(lines, i + 1,
           [acc EXCEPT !.dataLines = Append(@, StripPrefix(lines[i], DataPrefix))])
  ELSE ScanLinesFirstWins(lines, i + 1, acc)

\* a decoder that takes every line that is not an event: line for data
RECURSIVE ScanLinesKeepsOther(_, _, _)
ScanLinesKeepsOther(lines, i, acc) ==
  IF i > Len(lines) THEN acc
  ELSE IF StartsWith(lines[i], EventPrefix)
    THEN ScanLinesKeepsOther(lines, i + 1,
           [acc EXCEPT !.hasType = TRUE, !.eventType = StripPrefix(lines[i], EventPrefix)])
  ELSE IF StartsWith(lines[i], DataPrefix)
    THEN ScanLinesKeepsOther(lines, i + 1,
           [acc EXCEPT !.dataLines = Append(@, StripPrefix(lines[i], DataPrefix))])
  ELSE ScanLinesKeepsOther(lines, i + 1, [acc EXCEPT !.dataLines = Append(@, lines[i])])

\* the for loop over the lines of a frame: an event: line overwrites
\* eventType, a data: line is pushed on dataLines, other lines are skipped
RECURSIVE ScanLines(_, _, _)
ScanLines(lines, i, acc) ==
  IF i > Len(lines) THEN acc
  ELSE IF StartsWith(lines[i], EventPrefix)
    THEN ScanLines(lines, i + 1,
           [acc EXCEPT !.hasType = TRUE, !.eventType = StripPrefix(lines[i], EventPrefix)])
  ELSE IF StartsWith(lines[i], DataPrefix)
    THEN ScanLines(lines, i + 1,
           [acc EXCEPT !.dataLines = Append(@, StripPrefix(lines[i], DataPrefix))])
  ELSE ScanLines(lines, i + 1, acc)

\* eventType (hasType = FALSE is undefined) and dataLines of a frame
ParseFrame(chunk) ==
  ScanLines(Split(chunk, LineDelimiter), 1,
            [hasType |-> FALSE, eventType |-> <<>>, dataLines |-> <<>>])

\* dataLines.length > 0
HasData(chunk) == Len(ParseFrame(chunk).dataLines) > 0

\* eventType === 'done'
IsDone(chunk) ==
  LET f == ParseFrame(chunk) IN f.hasType /\ f.eventType = DoneType

RawObject(rawData) == JObject(<<JMember(RawKey, JString(rawData))>>)

\* a decoder that keeps the initial {} when JSON.parse throws
DecodeDataEmpty(rawData) ==
  LET p == JSONParse(rawData) IN IF p.ok THEN p.value ELSE EmptyObject

\* JSON.parse(rawData), or { raw: rawData } when it throws
DecodeData(rawData) ==
  LET p == JSONParse(rawData) IN IF p.ok THEN p.value ELSE RawObject(rawData)

\* a decoder without the default type
TypeOrEmpty(f) == f.eventType

\* eventType || 'content': undefined and the empty string both give 'content'
TypeOrContent(f) ==
  IF f.hasType /\ f.eventType # <<>> THEN f.eventType ELSE ContentType

StreamEvent(type, data) == [type |-> type, data |-> data]

\* a decoder that joins the data lines without a separator
EventOfUnjoined(chunk) ==
  LET f == ParseFrame(chunk)
  IN [type |-> IF f.hasType /\ f.eventType # <<>> THEN f.eventType ELSE ContentType,
      data |-> DecodeData(Join(f.dataLines, <<>>))]

\* the event yielded for a frame that has data lines
EventOf(chunk) ==
  LET f == ParseFrame(chunk)
  IN StreamEvent(TypeOrContent(f), DecodeData(Join(f.dataLines, LineDelimiter)))

\* index of the first frame at or after i that is yielded, 0 when none is
RECURSIVE NextYield(_, _)
NextYield(chs, i) ==
  IF i > Len(chs) THEN 0
  ELSE IF HasData(chs[i]) THEN i
  ELSE NextYield(chs, i + 1)

\* a decoder that walks the frames of a chunk from the last to the first
AllButLastReversed(parts) ==
  [i \in 1..(Len(parts) - 1) |-> parts[Len(parts) - i]]

\* chunks.pop() ?? '' leaves all pieces but the last in chunks
AllButLast(parts) == SubSeq(parts, 1, Len(parts) - 1)

\* a decoder that drops the incomplete remainder instead of keeping it
\* the text JSON.stringify gives for one character of a string
Escaped(c) ==
  IF c = "\"" THEN <<"\\", "\"">>
  ELSE IF c = "\\" THEN <<"\\", "\\">>
  ELSE IF c = "\n" THEN <<"\\", "n">>
  ELSE IF c = "\t" THEN <<"\\", "t">>
  ELSE IF c = "\r" THEN <<"\\", "r">>
  ELSE <<c>>

RECURSIVE Escape(_)
Escape(s) == IF s = <<>> THEN <<>> ELSE Escaped(s[1]) \o Escape(Tail(s))

Quoted(chars) == <<"\"">> \o Escape(chars) \o <<"\"">>

LiteralText ==
  [n \in {"true", "false", "null"} |->
     IF n = "true" THEN <<"t", "r", "u", "e">>
     ELSE IF n = "false" THEN <<"f", "a", "l", "s", "e">>
     ELSE <<"n", "u", "l", "l">>]

\* JSON.stringify(value): no white space, members in insertion order
RECURSIVE JSONStringify(_)
RECURSIVE StringifyMembers(_)
RECURSIVE StringifyItems(_)
StringifyMembers(members) ==
  IF members = <<>> THEN <<>>
  ELSE Quoted(members[1].key) \o <<":">> \o JSONStringify(members[1].value)
       \o (IF Len(members) > 1 THEN <<",">> ELSE <<>>)
       \o StringifyMembers(Tail(members))

StringifyItems(items) ==
  IF items = <<>> THEN <<>>
  ELSE JSONStringify(items[1])
       \o (IF Len(items) > 1 THEN <<",">> ELSE <<>>)
       \o StringifyItems(Tail(items))

JSONStringify(value) ==
  IF value.kind = "object" THEN <<"{">> \o StringifyMembers(value.members) \o <<"}">>
  ELSE IF value.kind = "array" THEN <<"[">> \o StringifyItems(value.items) \o <<"]">>
  ELSE IF value.kind = "string" THEN Quoted(value.chars)
  ELSE IF value.kind = "number" THEN value.digits
  ELSE LiteralText[value.name]

LastDropped(parts) == <<>>
Last(parts) == parts[Len(parts)]

(***************************************************************************)
(* State of one call of MessagesAPI.stream and of its environment.         *)
(***************************************************************************)
VARIABLES
  input,        \* the frames the server sends, in order
  tail,         \* unterminated text the server sends after the last frame
  wire,         \* the text of the response body: the frames, then the tail
  pos,          \* number of characters of wire the reader has delivered
  pc,           \* where the generator is suspended
  resp,         \* the response fetch resolved with
  fetchCalls,   \* number of fetch calls issued
  reader,       \* "none", "locked" after getReader(), "released" after releaseLock()
  body,         \* the body stream: "none", "open", "closed", "errored", "cancelled"
  buffer,       \* the local variable buffer
  chunks,       \* the local variable chunks of the current while iteration
  idx,          \* index in chunks of the frame whose event was yielded last
  yielded,      \* the events delivered to the consumer, in order
  exit,         \* the path on which the generator completed, "none" before
  error,        \* the error the generator threw, NoError when none
  streamError,  \* the error the body stream failed with, NoError when none
  base,         \* number of frames split off the stream before those in chunks
  origin,       \* for each yielded event, the position in the stream of its frame
  lastResult,   \* what the consumer's latest next() or return() came to:
                \* "none", "pending", "value", "done" or "throw"
  call,         \* baseUrl and apiKey of the MessagesAPI object and the arguments
                \* agentId, conversationId and content of the call of stream
  requests,     \* the requests handed to fetch, in order
  chunkStart    \* while the for loop is suspended at a yield, the value of
                \* pos before the chunk it iterates was delivered; pos otherwise

(***************************************************************************)
(* State of one call of ExecutionsAPI.waitForCompletion.  Time is counted  *)
(* in units of the clock since startTime.                                  *)
(***************************************************************************)
VARIABLES
  timeoutMs,      \* options.timeoutMs
  pollIntervalMs, \* options.pollIntervalMs
  wpc,            \* "idle", "awaitGet", "awaitSleep", "returned" or "thrown"
  elapsed,        \* Date.now() - startTime
  getCalls,       \* number of this.get(id) calls issued
  polled,         \* the executions the get calls resolved with, in order
  returned,       \* the execution returned, NoExecution when none
  raised          \* the error thrown: "none", "timeout" or "get"

waitVars ==
  <<timeoutMs, pollIntervalMs, wpc, elapsed, getCalls, polled, returned, raised>>

(***************************************************************************)
(* State of one call of NimbleBrain.streamMessage (src/nimblebrain.ts),    *)
(* which decodes the same response body.                                   *)
(***************************************************************************)
VARIABLES
  smPc,             \* where the generator is suspended
  smPos,            \* number of characters of wire its reader has delivered
  smRequests,       \* the requests it handed to fetch
  smResp,           \* the response fetch resolved with
  smBuffer,         \* the local variable buffer
  smLines,          \* the local variable lines of the current while iteration
  smIdx,            \* index in smLines of the line whose event was yielded last
  currentEventType, \* the local variable currentEventType
  smYielded,        \* the events delivered to the consumer, in order
  smExit,           \* the path on which the generator completed, "none" before
  smError           \* the error the generator threw, NoError when none

smVars ==
  <<smPc, smPos, smRequests, smResp, smBuffer, smLines, smIdx, currentEventType,
    smYielded, smExit, smError>>

streamVars ==
  <<input, tail, wire, pos, pc, resp, fetchCalls, reader, body, buffer,
    chunks, idx, yielded, exit, error, streamError, base, origin, lastResult,
    call, requests, chunkStart>>

(***************************************************************************)
(* State of the demo App (React state of the component App).               *)
(***************************************************************************)
VARIABLES
  sdk,             \* TRUE when the state sdk holds a client, FALSE when null
  currentAgent,    \* id of the agent selected, NoAgent when null
  currentPlaybook, \* id of the playbook selected, NoPlaybook when null
  conversation,    \* the conversation held, NoConversation when null
  creating,        \* the conversations.create requests in flight
  selects,         \* number of selectAgent calls made
  messages,        \* the list of UIMessage
  isStreaming,     \* the App-level flag isStreaming
  sendPc,          \* "idle", or "streaming" inside the for await of sendMessage
  assistantId,     \* the local assistantId of the latest sendMessage
  streams,         \* the arguments of the sdk.messages.stream calls made
  events,          \* how many events the generator has delivered to the for await
  sawDone          \* TRUE when the generator has yielded an event of type done

appVars ==
  <<sdk, currentAgent, currentPlaybook, conversation, creating, selects, messages,
    isStreaming, sendPc, assistantId, streams, events, sawDone>>

(***************************************************************************)
(* State of the demo proxy server (http.createServer handler).             *)
(***************************************************************************)
VARIABLES
  pxPc,        \* "idle", "awaitBody", "awaitFetch", "awaitText" or "pumping"
  received,    \* the requests the server received, in order
  answers,     \* for each request answered, its number, status and error
  upstream     \* the requests the proxy handed to fetch, each with the number
               \* of the request it was issued for

proxyVars == <<pxPc, received, answers, upstream>>

vars == <<streamVars, waitVars, smVars, appVars, proxyVars>>

\* what a step of each component cannot touch
offStream == <<waitVars, smVars, appVars, proxyVars>>
offWait == <<streamVars, smVars, appVars, proxyVars>>
offSm == <<waitVars, appVars, proxyVars>>
offApp == <<streamVars, waitVars, smVars, proxyVars>>
offProxy == <<streamVars, waitVars, smVars, appVars>>

envVars == <<input, tail, wire, call>>

NoResponse == [ok |-> FALSE, status |-> 0, hasBody |-> FALSE, text |-> ""]

\* config.baseUrl || 'https://api.nimblebrain.ai'
DefaultBaseUrl == "https://api.nimblebrain.ai"

StreamCall(baseUrl, apiKey, agentId, conversationId, content) ==
  [baseUrl |-> baseUrl, apiKey |-> apiKey, agentId |-> agentId,
   conversationId |-> conversationId, content |-> content]

\* the call the specifications of the decoder follow
DefaultCall == StreamCall(DefaultBaseUrl, "nb_live_1", "agent-1", "conv-1", <<"h", "i">>)

\* the calls the specification of the request follows; the last content
\* holds a quote and a backslash
CallSet ==
  {StreamCall(b, k, a, c, t) :
     b \in {DefaultBaseUrl, "http://localhost:3000/api"},
     k \in {"nb_live_1", "nb_test_2"},
     a \in {"agent-1", "conv-1"},
     c \in {"conv-1", "agent-1"},
     t \in {<<>>, <<"h", "i">>, <<"\"", "\\">>}}

\* a request whose body leaves the stream flag out
StreamRequestNoFlag(c) ==
  [url |-> c.baseUrl \o "/v1/agents/" \o c.agentId \o "/conversations/"
             \o c.conversationId \o "/messages",
   method |-> "POST",
   headers |-> [ContentType |-> "application/json",
                Accept |-> "text/event-stream",
                Authorization |-> "Bearer " \o c.apiKey],
   body |-> JSONStringify(JObject(<<JMember(<<"c", "o", "n", "t", "e", "n", "t">>,
                                            JString(c.content))>>))]

\* the url and the init argument of fetch, lines 222-232
StreamRequest(c) ==
  [url |-> c.baseUrl \o "/v1/agents/" \o c.agentId \o "/conversations/"
             \o c.conversationId \o "/messages",
   method |-> "POST",
   headers |-> [ContentType |-> "application/json",
                Accept |-> "text/event-stream",
                Authorization |-> "Bearer " \o c.apiKey],
   body |-> JSONStringify(JObject(<<JMember(<<"c", "o", "n", "t", "e", "n", "t">>,
                                            JString(c.content)),
                                    JMember(<<"s", "t", "r", "e", "a", "m">>,
                                            JLiteral("true"))>>))]

\* the state before the first next(), for a server that sends frames of the
\* set frames and then a tail of the set tails
InitFrom(frames, tails) ==
  /\ input \in SeqsUpTo(frames, MaxFrames)
  /\ tail \in tails
  /\ wire = RenderFrames(input) \o tail
  /\ pos = 0
  /\ pc = "suspendedStart"
  /\ resp = NoResponse
  /\ fetchCalls = 0
  /\ reader = "none"
  /\ body = "none"
  /\ buffer = <<>>
  /\ chunks = <<>>
  /\ idx = 0
  /\ yielded = <<>>
  /\ exit = "none"
  /\ error = NoError
  /\ streamError = NoError
  /\ base = 0
  /\ origin = <<>>
  /\ lastResult = "none"
  /\ requests = <<>>
  /\ chunkStart = 0

NoExecution == [id |-> "", status |-> "none"]

\* no call of waitForCompletion has been made
WaitIdle ==
  /\ timeoutMs = 0
  /\ pollIntervalMs = 0
  /\ wpc = "idle"
  /\ elapsed = 0
  /\ getCalls = 0
  /\ polled = <<>>
  /\ returned = NoExecution
  /\ raised = "none"

\* no call of streamMessage has been made
SmIdle ==
  /\ smPc = "suspendedStart"
  /\ smPos = 0
  /\ smRequests = <<>>
  /\ smResp = NoResponse
  /\ smBuffer = <<>>
  /\ smLines = <<>>
  /\ smIdx = 0
  /\ currentEventType = <<>>
  /\ smYielded = <<>>
  /\ smExit = "none"
  /\ smError = NoError

NoAgent == "null"
NoPlaybook == "null"
NoConversation == [id |-> 0, agentId |-> NoAgent]

\* the App as mounted without a stored key
AppIdle ==
  /\ sdk = FALSE
  /\ currentAgent = NoAgent
  /\ currentPlaybook = NoPlaybook
  /\ conversation = NoConversation
  /\ creating = {}
  /\ selects = 0
  /\ messages = <<>>
  /\ isStreaming = FALSE
  /\ sendPc = "idle"
  /\ assistantId = 0
  /\ streams = <<>>
  /\ events = 0
  /\ sawDone = FALSE

\* the server after listen
ProxyIdle ==
  /\ pxPc = "idle"
  /\ received = <<>>
  /\ answers = <<>>
  /\ upstream = <<>>

Idle == WaitIdle /\ SmIdle /\ AppIdle /\ ProxyIdle

Init == InitFrom(FrameSet, TailSet) /\ call = DefaultCall /\ Idle

InitShapes == InitFrom(ShapeSet, {<<>>}) /\ call = DefaultCall /\ Idle

\* tails: a lone newline, a data line cut short, and a done frame that lacks
\* its delimiter
MoreTails ==
  {<<>>,
   <<NL>>,
   <<"d", "a", "t", "a", ":", "{", "}">>,
   <<"e", "v", "e", "n", "t", ":", "d", "o", "n", "e", NL, "d", "a", "t", "a", ":", "{", "}", NL>>}

\* servers that end the response inside a frame
InitTails ==
  InitFrom({FrameContent, FrameDone}, MoreTails) /\ call = DefaultCall /\ Idle

\* calls of stream with any configuration and arguments, on a server that
\* sends done frames
InitRequest == InitFrom({FrameDone}, {<<>>}) /\ call \in CallSet /\ Idle

\* the lengths reader.read() may deliver when rem characters are still to come
ChunkLens(rem) == {n \in 1..rem : n <= MaxChunkLen \/ n = rem}

\* the generator completes: by return on a clean path, by throw with error e
Complete(path, e) ==
  /\ pc' = "completed"
  /\ exit' = path
  /\ error' = e
  /\ lastResult' = IF e = NoError THEN "done" ELSE "throw"

\* a generator without the finally block
FinallyMissing == UNCHANGED reader

\* the finally block: reader.releaseLock()
Finally == reader' = "released"

\* the for loop over chunks from frame i on, up to the next yield; when no
\* frame is left to yield the while loop issues the next reader.read()
RunLoop(chs, i) ==
  LET j == NextYield(chs, i)
  IN IF j = 0
       THEN /\ pc' = "awaitRead"
            /\ chunks' = <<>>
            /\ idx' = 0
            /\ base' = base + Len(chs)
            /\ lastResult' = "pending"
            /\ UNCHANGED <<yielded, origin>>
       ELSE /\ pc' = "suspendedYield"
            /\ lastResult' = "value"
            /\ chunks' = chs
            /\ idx' = j
            /\ yielded' = Append(yielded, EventOf(chs[j]))
            /\ origin' = Append(origin, base + j)
            /\ UNCHANGED base

\* the consumer's first next(): the generator runs up to await fetch(...)
CallNextStart ==
  /\ pc = "suspendedStart"
  /\ pc' = "awaitFetch"
  /\ fetchCalls' = fetchCalls + 1
  /\ requests' = Append(requests, StreamRequest(call))
  /\ lastResult' = "pending"
  /\ UNCHANGED <<envVars, offStream, chunkStart, pos, resp, reader, body, buffer, chunks, idx,
                 yielded, exit, error, streamError, base, origin>>

\* fetch rejects: the generator throws that error
FetchReject(e) ==
  /\ pc = "awaitFetch"
  /\ Complete("fetchError", e)
  /\ UNCHANGED <<envVars, offStream, requests, chunkStart, pos, resp, fetchCalls, reader, body, buffer, chunks,
                 idx, yielded, streamError, base, origin>>

\* a message that leaves the status code out
RequestFailedNoStatus(r) == <<"Stream request failed: ", r.text>>

\* `Stream request failed: ${response.status} ${errorText}`
RequestFailedMessage(r) ==
  <<"Stream request failed: ", ToString(r.status), " ", r.text>>

\* a missing body reported with the message of a failed request
NoBodyAsRequestFailed == <<"Stream request failed: ", "200", " ", "">>
NoBodyMessage == <<"No response body for streaming">>

\* fetch resolves: lines 234-248, up to await response.text() or to the
\* first await reader.read()
FetchResolve(r) ==
  /\ pc = "awaitFetch"
  /\ resp' = r
  /\ IF ~r.ok
       THEN /\ pc' = "awaitText"
            /\ UNCHANGED <<reader, body, buffer, exit, error, lastResult>>
       ELSE IF ~r.hasBody
         THEN /\ Complete("noBody", NoBodyMessage)
              /\ UNCHANGED <<reader, body, buffer>>
         ELSE /\ reader' = "locked"
              /\ body' = "open"
              /\ buffer' = <<>>
              /\ pc' = "awaitRead"
              /\ UNCHANGED <<exit, error, lastResult>>
  /\ UNCHANGED <<envVars, offStream, requests, chunkStart, pos, fetchCalls, chunks, idx, yielded, streamError,
                 base, origin>>

\* response.text() resolves: the generator throws the request error
TextResolve ==
  /\ pc = "awaitText"
  /\ Complete("rejected", RequestFailedMessage(resp))
  /\ UNCHANGED <<envVars, offStream, requests, chunkStart, pos, resp, fetchCalls, reader, body, buffer, chunks,
                 idx, yielded, streamError, base, origin>>

\* a loop that splits off the frames and leaves their text in the buffer
ReadChunkKeepsText ==
  /\ pc = "awaitRead"
  /\ \E n \in ChunkLens(Len(wire) - pos) :
       LET value == SubSeq(wire, pos + 1, pos + n)
           parts == Split(buffer \o value, FrameDelimiter)
       IN /\ buffer' = IF Len(parts) > 1 THEN buffer \o value ELSE Last(parts)
          /\ RunLoop(AllButLast(parts), 1)
          /\ pos' = pos + n
          /\ chunkStart' = IF NextYield(AllButLast(parts), 1) = 0 THEN pos + n ELSE pos
  /\ UNCHANGED <<envVars, offStream, requests, resp, fetchCalls, reader, body, exit,
                 error, streamError>>

\* a loop that takes every newline for the end of a frame
ReadChunkSplitsAtNewline ==
  /\ pc = "awaitRead"
  /\ \E n \in ChunkLens(Len(wire) - pos) :
       LET value == SubSeq(wire, pos + 1, pos + n)
           parts == Split(buffer \o value, LineDelimiter)
       IN /\ buffer' = Last(parts)
          /\ RunLoop(AllButLast(parts), 1)
          /\ pos' = pos + n
          /\ chunkStart' = IF NextYield(AllButLast(parts), 1) = 0 THEN pos + n ELSE pos
  /\ UNCHANGED <<envVars, offStream, requests, resp, fetchCalls, reader, body, exit,
                 error, streamError>>

\* reader.read() resolves with a chunk of some length: lines 251-253, then
\* the for loop up to the next yield or the next read
ReadChunk ==
  /\ pc = "awaitRead"
  /\ \E n \in ChunkLens(Len(wire) - pos) :
       LET value == SubSeq(wire, pos + 1, pos + n)
           parts == Split(buffer \o value, FrameDelimiter)
       IN /\ buffer' = Last(parts)
          /\ RunLoop(AllButLast(parts), 1)
          /\ pos' = pos + n
          /\ chunkStart' = IF NextYield(AllButLast(parts), 1) = 0 THEN pos + n ELSE pos
  /\ UNCHANGED <<envVars, offStream, requests, resp, fetchCalls, reader, body, exit,
                 error, streamError>>

\* a generator that at the close of the body decodes what is left in the
\* buffer as one more frame
ReadDoneFlushes ==
  /\ pc = "awaitRead"
  /\ pos = Len(wire)
  /\ body' = "closed"
  /\ Finally
  /\ Complete("close", NoError)
  /\ yielded' = IF HasData(buffer) THEN Append(yielded, EventOf(buffer)) ELSE yielded
  /\ origin' = IF HasData(buffer) THEN Append(origin, base + 1) ELSE origin
  /\ UNCHANGED <<envVars, offStream, requests, chunkStart, pos, resp, fetchCalls, buffer,
                 chunks, idx, streamError, base>>

\* reader.read() resolves with done after the server closed the body:
\* break, then the finally block
ReadDone ==
  /\ pc = "awaitRead"
  /\ pos = Len(wire)
  /\ body' = "closed"
  /\ Finally
  /\ Complete("close", NoError)
  /\ UNCHANGED <<envVars, offStream, requests, chunkStart, pos, resp, fetchCalls, buffer, chunks, idx, yielded,
                 streamError, base, origin>>

\* a generator that catches the rejection and ends the loop as on a close
ReadRejectSwallowed(e) ==
  /\ pc = "awaitRead"
  /\ body' = "errored"
  /\ streamError' = e
  /\ Finally
  /\ Complete("close", NoError)
  /\ UNCHANGED <<envVars, offStream, requests, chunkStart, pos, resp, fetchCalls, buffer, chunks, idx, yielded,
                 base, origin>>

\* reader.read() rejects: the error leaves the try through the finally block
ReadReject(e) ==
  /\ pc = "awaitRead"
  /\ body' = "errored"
  /\ streamError' = e
  /\ Finally
  /\ Complete("readError", e)
  /\ UNCHANGED <<envVars, offStream, requests, chunkStart, pos, resp, fetchCalls, buffer, chunks, idx, yielded,
                 base, origin>>

\* a generator that reads the next chunk after each event, dropping the
\* frames of the current chunk it has not looked at yet
CallNextResumeReads ==
  /\ pc = "suspendedYield"
  /\ IF IsDone(chunks[idx])
       THEN /\ Finally
            /\ Complete("done", NoError)
            /\ chunkStart' = pos
            /\ UNCHANGED <<chunks, idx, yielded, base, origin>>
       ELSE /\ pc' = "awaitRead"
            /\ chunkStart' = pos
            /\ chunks' = <<>>
            /\ idx' = 0
            /\ base' = base + Len(chunks)
            /\ lastResult' = "pending"
            /\ UNCHANGED <<yielded, origin, reader, exit, error>>
  /\ UNCHANGED <<envVars, offStream, requests, pos, resp, fetchCalls, body, buffer,
                 streamError>>

\* the consumer's next() after a yield: lines 284-286, then the rest of the
\* for loop
CallNextResume ==
  /\ pc = "suspendedYield"
  /\ IF IsDone(chunks[idx])
       THEN /\ Finally
            /\ Complete("done", NoError)
            /\ chunkStart' = pos
            /\ UNCHANGED <<chunks, idx, yielded, base, origin>>
       ELSE /\ RunLoop(chunks, idx + 1)
            /\ chunkStart' = IF NextYield(chunks, idx + 1) = 0 THEN pos ELSE chunkStart
            /\ UNCHANGED <<reader, exit, error>>
  /\ UNCHANGED <<envVars, offStream, requests, pos, resp, fetchCalls, body, buffer,
                 streamError>>

\* the consumer's return() (a break out of for await): before the first
\* next() the generator just completes, at a yield the finally block runs
CallReturn ==
  /\ pc \in {"suspendedStart", "suspendedYield"}
  /\ IF pc = "suspendedYield" THEN Finally ELSE UNCHANGED reader
  /\ Complete("return", NoError)
  /\ chunkStart' = pos
  /\ UNCHANGED <<envVars, offStream, requests, pos, resp, fetchCalls, body, buffer,
                 chunks, idx, yielded, streamError, base, origin>>

\* a generator that starts over when next() is called after it completed
CallNextCompletedRestarts ==
  /\ pc = "completed"
  /\ pc' = "awaitFetch"
  /\ fetchCalls' = fetchCalls + 1
  /\ requests' = Append(requests, StreamRequest(call))
  /\ lastResult' = "pending"
  /\ UNCHANGED <<envVars, offStream, chunkStart, pos, resp, reader, body, buffer, chunks,
                 idx, yielded, exit, error, streamError, base, origin>>

\* the consumer's next() on a completed generator: it resolves with
\* { value: undefined, done: true } and the body of stream does not run
CallNextCompleted ==
  /\ pc = "completed"
  /\ lastResult' = "done"
  /\ UNCHANGED <<envVars, offStream, requests, chunkStart, pos, pc, resp, fetchCalls, reader, body,
                 buffer, chunks, idx, yielded, exit, error, streamError, base,
                 origin>>

Next ==
  \/ CallNextStart
  \/ \E e \in TransportErrors : FetchReject(e)
  \/ \E r \in Responses : FetchResolve(r)
  \/ TextResolve
  \/ ReadChunk
  \/ ReadDone
  \/ \E e \in TransportErrors : ReadReject(e)
  \/ CallNextResume
  \/ CallReturn
  \/ CallNextCompleted

Spec == Init /\ [][Next]_vars

\* the same generator, fed the frames of ShapeSet
SpecShapes == InitShapes /\ [][Next]_vars
SpecRequest == InitRequest /\ [][Next]_vars
SpecTails == InitTails /\ [][Next]_vars

(***************************************************************************)
(* ExecutionsAPI.waitForCompletion, lines 339-360.                         *)
(***************************************************************************)
\* the union type of Execution.status
ExecutionStatuses ==
  {"queued", "pending", "running", "completed", "completed_with_errors",
   "failed", "cancelled"}

\* response.data as Execution asserts the type and checks nothing: the status
\* a get call resolves with is whatever the server sent
PolledStatuses == ExecutionStatuses \cup {"paused"}

Execution(status) == [id |-> "exec-1", status |-> status]

\* a wait that takes only the successful statuses for complete
IsCompleteSuccessOnly(execution) ==
  execution.status \in {"completed", "completed_with_errors"}

\* ['completed', 'completed_with_errors', 'failed', 'cancelled']
\*   .includes(execution.status)
IsComplete(execution) ==
  execution.status \in {"completed", "completed_with_errors", "failed", "cancelled"}

\* the values of options in the calls the model follows
TimeoutChoices == {0, 2, 3}
PollIntervalChoices == {0, 1, 2}

InitWait ==
  /\ InitFrom({}, {<<>>})
  /\ call = DefaultCall
  /\ SmIdle
  /\ AppIdle
  /\ ProxyIdle
  /\ timeoutMs \in TimeoutChoices
  /\ pollIntervalMs \in PollIntervalChoices
  /\ wpc = "idle"
  /\ elapsed = 0
  /\ getCalls = 0
  /\ polled = <<>>
  /\ returned = NoExecution
  /\ raised = "none"

\* the call: startTime = Date.now(), then the first await this.get(id)
WaitStart ==
  /\ wpc = "idle"
  /\ wpc' = "awaitGet"
  /\ getCalls' = getCalls + 1
  /\ UNCHANGED <<offWait, timeoutMs, pollIntervalMs, elapsed, polled,
                 returned, raised>>

\* a loop that at the deadline returns the execution it has instead of
\* throwing
GetResolveReturnsAtDeadline ==
  /\ wpc = "awaitGet"
  /\ \E status \in PolledStatuses, latency \in 0..MaxLatency :
       LET execution == Execution(status)
       IN /\ elapsed' = elapsed + latency
          /\ polled' = Append(polled, execution)
          /\ IF IsComplete(execution) \/ elapsed' > timeoutMs
               THEN /\ wpc' = "returned"
                    /\ returned' = execution
               ELSE /\ wpc' = "awaitSleep"
                    /\ UNCHANGED returned
  /\ UNCHANGED <<offWait, timeoutMs, pollIntervalMs, getCalls, raised>>

\* a loop that looks at the deadline before it looks at the status
GetResolveDeadlineFirst ==
  /\ wpc = "awaitGet"
  /\ \E status \in PolledStatuses, latency \in 0..MaxLatency :
       LET execution == Execution(status)
       IN /\ elapsed' = elapsed + latency
          /\ polled' = Append(polled, execution)
          /\ IF elapsed' > timeoutMs
               THEN /\ wpc' = "thrown"
                    /\ raised' = "timeout"
                    /\ UNCHANGED returned
               ELSE IF IsComplete(execution)
                 THEN /\ wpc' = "returned"
                      /\ returned' = execution
                      /\ UNCHANGED raised
                 ELSE /\ wpc' = "awaitSleep"
                      /\ UNCHANGED <<returned, raised>>
  /\ UNCHANGED <<offWait, timeoutMs, pollIntervalMs, getCalls>>

\* this.get(id) resolves after some time: lines 348-358, up to the return,
\* the throw or the timer
GetResolve ==
  /\ wpc = "awaitGet"
  /\ \E status \in PolledStatuses, latency \in 0..MaxLatency :
       LET execution == Execution(status)
       IN /\ elapsed' = elapsed + latency
          /\ polled' = Append(polled, execution)
          /\ IF IsComplete(execution)
               THEN /\ wpc' = "returned"
                    /\ returned' = execution
                    /\ UNCHANGED raised
               ELSE IF elapsed' > timeoutMs
                 THEN /\ wpc' = "thrown"
                      /\ raised' = "timeout"
                      /\ UNCHANGED returned
                 ELSE /\ wpc' = "awaitSleep"
                      /\ UNCHANGED <<returned, raised>>
  /\ UNCHANGED <<offWait, timeoutMs, pollIntervalMs, getCalls>>

\* this.get(id) rejects (throwOnError): the error leaves waitForCompletion
GetReject ==
  /\ wpc = "awaitGet"
  /\ \E latency \in 0..MaxLatency : elapsed' = elapsed + latency
  /\ wpc' = "thrown"
  /\ raised' = "get"
  /\ UNCHANGED <<offWait, timeoutMs, pollIntervalMs, getCalls, polled, returned>>

\* the timer of setTimeout(resolve, pollIntervalMs) fires, not before the
\* interval has passed: the next iteration issues the next get. With an
\* interval of 0 the clock need not advance, and the model follows the loop
\* for MaxPolls get calls.
SleepResolve ==
  /\ wpc = "awaitSleep"
  /\ pollIntervalMs = 0 => getCalls < MaxPolls
  /\ \E delay \in pollIntervalMs..(pollIntervalMs + MaxLatency) :
       elapsed' = elapsed + delay
  /\ wpc' = "awaitGet"
  /\ getCalls' = getCalls + 1
  /\ UNCHANGED <<offWait, timeoutMs, pollIntervalMs, polled, returned, raised>>

NextWait ==
  \/ WaitStart
  \/ GetResolve
  \/ GetReject
  \/ SleepResolve

SpecWait == InitWait /\ [][NextWait]_vars

\* the event loop runs the call, a get call that can resolve does, and a timer
\* that is due fires
SpecWaitLive ==
  /\ SpecWait
  /\ WF_vars(WaitStart)
  /\ WF_vars(GetResolve)
  /\ WF_vars(SleepResolve)

(***************************************************************************)
(* NimbleBrain.streamMessage, src/nimblebrain.ts lines 286-337.            *)
(***************************************************************************)
EventSpacePrefix == <<"e", "v", "e", "n", "t", ":", " ">>
DataSpacePrefix == <<"d", "a", "t", "a", ":", " ">>

\* the url and the init argument of its fetch, lines 291-302
StreamMessageRequest(c) ==
  [url |-> c.baseUrl \o "/v1/agents/" \o c.agentId \o "/conversations/"
             \o c.conversationId \o "/messages",
   method |-> "POST",
   headers |-> [ContentType |-> "application/json",
                Accept |-> "text/event-stream",
                Authorization |-> "Bearer " \o c.apiKey],
   body |-> JSONStringify(JObject(<<JMember(<<"c", "o", "n", "t", "e", "n", "t">>,
                                            JString(c.content)),
                                    JMember(<<"r", "o", "l", "e">>,
                                            JString(<<"u", "s", "e", "r">>)),
                                    JMember(<<"s", "t", "r", "e", "a", "m">>,
                                            JLiteral("true"))>>))]

\* error.error || error.message || `HTTP ${response.status}`, where error is
\* the JSON of the body or, when the body is not JSON, { error: 'Unknown
\* error' }: the body of a rejected response is not part of this model, so
\* the message is any of those
SmErrorMessages(r) ==
  {<<"Unknown error">>, <<"HTTP ", ToString(r.status)>>, <<"message of the body">>}

SmNoBodyMessage == <<"No response body">>

SmNoYield(cur) == [idx |-> 0, cur |-> cur, data |-> EmptyObject]

\* a loop that cuts the type one character early: line.slice(6)
RECURSIVE SmScanSliceSix(_, _, _)
SmScanSliceSix(lines, i, cur) ==
  IF i > Len(lines) THEN SmNoYield(cur)
  ELSE IF StartsWith(lines[i], EventSpacePrefix)
    THEN SmScanSliceSix(lines, i + 1, SubSeq(lines[i], 7, Len(lines[i])))
  ELSE IF StartsWith(lines[i], DataSpacePrefix) /\ cur # <<>>
    THEN LET v == JSONParse(SubSeq(lines[i], 7, Len(lines[i])))
         IN IF v.ok THEN [idx |-> i, cur |-> cur, data |-> v.value]
            ELSE SmScanSliceSix(lines, i + 1, cur)
  ELSE SmScanSliceSix(lines, i + 1, cur)

\* the for loop over lines from line i on with currentEventType = cur, lines
\* 324-335: the index of the line at which it yields, 0 when it ends without
\* a yield, the value of currentEventType then, and the data of the event
RECURSIVE SmScan(_, _, _)
SmScan(lines, i, cur) ==
  IF i > Len(lines) THEN SmNoYield(cur)
  ELSE IF StartsWith(lines[i], EventSpacePrefix)
    THEN SmScan(lines, i + 1, SubSeq(lines[i], 8, Len(lines[i])))
  ELSE IF StartsWith(lines[i], DataSpacePrefix) /\ cur # <<>>
    THEN LET v == JSONParse(SubSeq(lines[i], 7, Len(lines[i])))
         IN IF v.ok THEN [idx |-> i, cur |-> cur, data |-> v.value]
            ELSE SmScan(lines, i + 1, cur)
  ELSE SmScan(lines, i + 1, cur)

\* the for loop from line i on, up to the next yield or the next read
SmRunLoop(ls, i) ==
  LET r == SmScan(ls, i, currentEventType)
  IN /\ currentEventType' = r.cur
     /\ IF r.idx = 0
          THEN /\ smPc' = "awaitRead"
               /\ smLines' = <<>>
               /\ smIdx' = 0
               /\ UNCHANGED smYielded
          ELSE /\ smPc' = "suspendedYield"
               /\ smLines' = ls
               /\ smIdx' = r.idx
               /\ smYielded' = Append(smYielded, StreamEvent(r.cur, r.data))

SmComplete(path, e) ==
  /\ smPc' = "completed"
  /\ smExit' = path
  /\ smError' = e

\* the consumer turns to this generator after it has iterated the one of
\* MessagesAPI.stream to its end
SmTurn == pc = "completed" /\ exit \in {"close", "done"}

\* the consumer's first next(): the generator runs up to await fetch(...)
SmCallNextStart ==
  /\ SmTurn
  /\ smPc = "suspendedStart"
  /\ smPc' = "awaitFetch"
  /\ smRequests' = Append(smRequests, StreamMessageRequest(call))
  /\ UNCHANGED <<streamVars, offSm, smPos, smResp, smBuffer, smLines, smIdx,
                 currentEventType, smYielded, smExit, smError>>

SmFetchReject(e) ==
  /\ smPc = "awaitFetch"
  /\ SmComplete("fetchError", e)
  /\ UNCHANGED <<streamVars, offSm, smPos, smRequests, smResp, smBuffer, smLines,
                 smIdx, currentEventType, smYielded>>

\* fetch resolves: lines 304-314, up to await response.json() or to the first
\* await reader.read()
SmFetchResolve(r) ==
  /\ smPc = "awaitFetch"
  /\ smResp' = r
  /\ IF ~r.ok
       THEN /\ smPc' = "awaitJson"
            /\ UNCHANGED <<smExit, smError>>
       ELSE IF ~r.hasBody
         THEN SmComplete("noBody", SmNoBodyMessage)
         ELSE /\ smPc' = "awaitRead"
              /\ UNCHANGED <<smExit, smError>>
  /\ UNCHANGED <<streamVars, offSm, smPos, smRequests, smBuffer, smLines, smIdx,
                 currentEventType, smYielded>>

\* response.json() settles: the generator throws
SmJsonSettle ==
  /\ smPc = "awaitJson"
  /\ \E msg \in SmErrorMessages(smResp) : SmComplete("rejected", msg)
  /\ UNCHANGED <<streamVars, offSm, smPos, smRequests, smResp, smBuffer, smLines,
                 smIdx, currentEventType, smYielded>>

\* reader.read() resolves with a chunk: lines 320-322, then the for loop
SmReadChunk ==
  /\ smPc = "awaitRead"
  /\ \E n \in ChunkLens(Len(wire) - smPos) :
       LET value == SubSeq(wire, smPos + 1, smPos + n)
           lines == Split(smBuffer \o value, LineDelimiter)
       IN /\ smBuffer' = Last(lines)
          /\ SmRunLoop(AllButLast(lines), 1)
          /\ smPos' = smPos + n
  /\ UNCHANGED <<streamVars, offSm, smRequests, smResp, smExit, smError>>

\* reader.read() resolves with done: break, and the generator returns
SmReadDone ==
  /\ smPc = "awaitRead"
  /\ smPos = Len(wire)
  /\ SmComplete("close", NoError)
  /\ UNCHANGED <<streamVars, offSm, smPos, smRequests, smResp, smBuffer, smLines,
                 smIdx, currentEventType, smYielded>>

\* reader.read() rejects: the generator throws that error
SmReadReject(e) ==
  /\ smPc = "awaitRead"
  /\ SmComplete("readError", e)
  /\ UNCHANGED <<streamVars, offSm, smPos, smRequests, smResp, smBuffer, smLines,
                 smIdx, currentEventType, smYielded>>

\* the consumer's next() after a yield: the rest of the for loop
SmCallNextResume ==
  /\ smPc = "suspendedYield"
  /\ SmRunLoop(smLines, smIdx + 1)
  /\ UNCHANGED <<streamVars, offSm, smPos, smRequests, smResp, smBuffer, smExit,
                 smError>>

\* the consumer's return()
SmCallReturn ==
  /\ SmTurn
  /\ smPc \in {"suspendedStart", "suspendedYield"}
  /\ SmComplete("return", NoError)
  /\ UNCHANGED <<streamVars, offSm, smPos, smRequests, smResp, smBuffer, smLines,
                 smIdx, currentEventType, smYielded>>

NextMessage ==
  \/ SmCallNextStart
  \/ \E e \in TransportErrors : SmFetchReject(e)
  \/ \E r \in Responses : SmFetchResolve(r)
  \/ SmJsonSettle
  \/ SmReadChunk
  \/ SmReadDone
  \/ \E e \in TransportErrors : SmReadReject(e)
  \/ SmCallNextResume
  \/ SmCallReturn

\* event: message.start / data: {}
FrameMessageStart == <<EventLine(<<" ">>, MessageStartType), DataLine(<<" ">>, PayloadEmpty)>>

\* frames of the form the two decoders agree on, and two that are not of it:
\* one without event: line and one without the space after the colon
MessageFrames ==
  {FrameContent, FrameMessageStart, FrameDone, FrameUntyped, FrameMalformed}

InitMessage == InitFrom(MessageFrames, {<<>>}) /\ call = DefaultCall /\ Idle

\* the two generators iterated one after the other over the same response
SpecMessage == InitMessage /\ [][Next \/ NextMessage]_vars

(***************************************************************************)
(* The demo App, part_000 lines 157-386.                                   *)
(***************************************************************************)
AgentIds == {"agent-1", "agent-2"}
PlaybookIds == {"playbook-1"}

\* the conversation the server creates for request number n of agent a
Conversation(n, a) == [id |-> n, agentId |-> a]

UIMessage(id, role, content, streaming) ==
  [id |-> id, role |-> role, content |-> content, isStreaming |-> streaming,
   toolActivity |-> ""]

UserId(n) == <<"user", n>>
AssistantId(n) == <<"assistant", n>>

\* the events a generator of sdk.messages.stream may deliver; text stands
\* for the member of data the App reads (text, display or error)
AppEvents ==
  {[type |-> t, text |-> x] :
     t \in {MessageStartType, ContentType, ToolStartType, ToolCompleteType,
            MessageCompleteType, DoneType, ErrorType},
     x \in {"x"}}

\* the body of the switch for the message m with id assistantId, lines
\* 291-331
OnEvent(m, ev) ==
  IF ev.type = ContentType
    THEN [m EXCEPT !.content = Append(m.content, ev.text)]
  ELSE IF ev.type = ToolStartType
    THEN [m EXCEPT !.toolActivity = ev.text]
  ELSE IF ev.type = ToolCompleteType
    THEN [m EXCEPT !.toolActivity = ""]
  ELSE IF ev.type \in {MessageCompleteType, DoneType}
    THEN [m EXCEPT !.isStreaming = FALSE, !.toolActivity = ""]
  ELSE IF ev.type = ErrorType
    THEN [m EXCEPT !.content = <<ev.text>>, !.isStreaming = FALSE]
  ELSE m

\* the catch block for the message m with id assistantId, lines 334-339
OnThrow(m) == [m EXCEPT !.content = <<"Error: ">>, !.isStreaming = FALSE]

\* prev.map(m => m.id === assistantId ? {...} : m) in the switch
MapOnEvent(prev, id, ev) ==
  [i \in 1..Len(prev) |-> IF prev[i].id = id THEN OnEvent(prev[i], ev) ELSE prev[i]]

\* prev.map(m => m.id === assistantId ? {...} : m) in the catch block
MapOnThrow(prev, id) ==
  [i \in 1..Len(prev) |-> IF prev[i].id = id THEN OnThrow(prev[i]) ELSE prev[i]]

\* connect() succeeds: lines 205-212
AppConnect ==
  /\ ~sdk
  /\ sdk' = TRUE
  /\ UNCHANGED <<offApp, currentAgent, currentPlaybook, conversation, creating,
                 selects, messages, isStreaming, sendPc, assistantId, streams,
                 events, sawDone>>

\* disconnect, lines 226-236
AppDisconnect ==
  /\ sdk
  /\ sdk' = FALSE
  /\ currentAgent' = NoAgent
  /\ currentPlaybook' = NoPlaybook
  /\ conversation' = NoConversation
  /\ messages' = <<>>
  /\ UNCHANGED <<offApp, creating, selects, isStreaming, sendPc, assistantId,
                 streams, events, sawDone>>

\* selectAgent(agent) up to await sdk.conversations.create, lines 239-248
SelectAgent(a) ==
  /\ sdk
  /\ selects < MaxSelects
  /\ selects' = selects + 1
  /\ currentAgent' = a
  /\ currentPlaybook' = NoPlaybook
  /\ messages' = <<>>
  /\ conversation' = NoConversation
  /\ creating' = creating \cup {Conversation(selects + 1, a)}
  /\ UNCHANGED <<offApp, sdk, isStreaming, sendPc, assistantId, streams, events,
                 sawDone>>

\* a conversations.create request resolves: setConversation(conv), line 249
CreateResolve ==
  /\ \E conv \in creating :
       /\ creating' = creating \ {conv}
       /\ conversation' = conv
  /\ UNCHANGED <<offApp, sdk, currentAgent, currentPlaybook, selects, messages,
                 isStreaming, sendPc, assistantId, streams, events, sawDone>>

\* a conversations.create request rejects: lines 250-252
CreateReject ==
  /\ \E conv \in creating : creating' = creating \ {conv}
  /\ messages' = <<UIMessage(<<"error", 0>>, "system", <<"Failed to create conversation">>,
                             FALSE)>>
  /\ UNCHANGED <<offApp, sdk, currentAgent, currentPlaybook, conversation, selects,
                 isStreaming, sendPc, assistantId, streams, events, sawDone>>

\* selectPlaybook, lines 255-259
SelectPlaybook(pb) ==
  /\ sdk
  /\ currentPlaybook' = pb
  /\ currentAgent' = NoAgent
  /\ UNCHANGED <<offApp, sdk, conversation, creating, selects, messages, isStreaming,
                 sendPc, assistantId, streams, events, sawDone>>

\* sendMessage with a text that is not blank, up to the first next() of the
\* for await: lines 262-290
SendMessage ==
  /\ sdk
  /\ currentAgent # NoAgent
  /\ conversation # NoConversation
  /\ ~isStreaming
  /\ Len(streams) < MaxSends
  /\ LET n == Len(streams) + 1
     IN /\ messages' = messages \o
                         <<UIMessage(UserId(n), "user", <<"hi">>, FALSE),
                           UIMessage(AssistantId(n), "assistant", <<>>, TRUE)>>
        /\ assistantId' = AssistantId(n)
  /\ isStreaming' = TRUE
  /\ sendPc' = "streaming"
  /\ streams' = Append(streams, [agentId |-> currentAgent, conversation |-> conversation])
  /\ events' = 0
  /\ sawDone' = FALSE
  /\ UNCHANGED <<offApp, sdk, currentAgent, currentPlaybook, conversation, creating,
                 selects>>

\* the generator yields an event: one pass of the body of the for await.  A
\* generator that has yielded done returns at the next call.
StreamEvents ==
  /\ sendPc = "streaming"
  /\ ~sawDone
  /\ events < MaxEvents
  /\ \E ev \in AppEvents :
       /\ events' = events + 1
       /\ sawDone' = (ev.type = DoneType)
       /\ messages' = MapOnEvent(messages, assistantId, ev)
  /\ UNCHANGED <<offApp, sdk, currentAgent, currentPlaybook, conversation, creating,
                 selects, isStreaming, sendPc, assistantId, streams>>

\* the generator returns, after done or when the body ends without it: the
\* for await ends, then the finally block, lines 340-342
StreamReturns ==
  /\ sendPc = "streaming"
  /\ isStreaming' = FALSE
  /\ sendPc' = "idle"
  /\ UNCHANGED <<offApp, sdk, currentAgent, currentPlaybook, conversation, creating,
                 selects, messages, assistantId, streams, events, sawDone>>

\* the generator throws: the catch block, then the finally block
StreamThrows ==
  /\ sendPc = "streaming"
  /\ ~sawDone
  /\ messages' = MapOnThrow(messages, assistantId)
  /\ isStreaming' = FALSE
  /\ sendPc' = "idle"
  /\ UNCHANGED <<offApp, sdk, currentAgent, currentPlaybook, conversation, creating,
                 selects, assistantId, streams, events, sawDone>>

NextApp ==
  \/ AppConnect
  \/ AppDisconnect
  \/ \E a \in AgentIds : SelectAgent(a)
  \/ CreateResolve
  \/ CreateReject
  \/ \E pb \in PlaybookIds : SelectPlaybook(pb)
  \/ SendMessage
  \/ StreamEvents
  \/ StreamReturns
  \/ StreamThrows

InitApp == InitFrom({}, {<<>>}) /\ call = DefaultCall /\ Idle

SpecApp == InitApp /\ [][NextApp]_vars

(***************************************************************************)
(* The demo proxy server, part_000 lines 19-108.                           *)
(***************************************************************************)
\* process.env.API_BASE || 'https://api.nimblebrain.ai', as one piece of text
API_BASE == <<"https://api.nimblebrain.ai">>

ApiPrefix == <<"/", "a", "p", "i">>
ApiSlashPrefix == <<"/", "a", "p", "i", "/">>

\* req.headers['x-api-key'] of a request without that header
Undefined == "undefined"

\* String.prototype.replace(pattern, replacement) with a string pattern: the
\* first occurrence, from index i on
RECURSIVE ReplaceFirst(_, _, _, _)
ReplaceFirst(s, pattern, replacement, i) ==
  IF i + Len(pattern) - 1 > Len(s) THEN s
  ELSE IF MatchAt(s, pattern, i)
    THEN SubSeq(s, 1, i - 1) \o replacement \o SubSeq(s, i + Len(pattern), Len(s))
  ELSE ReplaceFirst(s, pattern, replacement, i + 1)

\* the requests the browser, or anyone, may send: the paths /api/a,
\* /api/a/api, /api and /
ProxyRequests ==
  {[method |-> mt, pathname |-> pn, search |-> <<>>, apiKey |-> k, wantsStream |-> w] :
     mt \in {"GET", "POST", "OPTIONS"},
     pn \in {ApiSlashPrefix \o <<"a">>, ApiSlashPrefix \o <<"a">> \o ApiPrefix,
             ApiPrefix, <<"/">>},
     k \in {Undefined, "", "nb_live_1"},
     w \in {FALSE}}
  \cup
  {[method |-> "POST", pathname |-> ApiSlashPrefix \o <<"a">>,
    search |-> <<"?", "q">>, apiKey |-> k, wantsStream |-> TRUE] :
     k \in {Undefined, "nb_test_2"}}

Answer(n, status, message) == [for |-> n, status |-> status, error |-> message]

\* a server that asks for no key
ApiKeyMissingNever(apiKey) == FALSE

\* !apiKey
ApiKeyMissing(apiKey) == apiKey \in {Undefined, ""}

\* the arguments of fetch in proxyRequest for request number n, lines 20-39
UpstreamRequest(n, req) ==
  [for |-> n,
   url |-> API_BASE \o ReplaceFirst(req.pathname, ApiPrefix, <<>>, 1) \o req.search,
   method |-> req.method,
   authorization |-> "Bearer " \o req.apiKey,
   accept |-> IF req.wantsStream THEN "text/event-stream" ELSE "",
   hasBody |-> req.method \in {"POST", "PUT", "PATCH"}]

\* a request arrives: the handler, lines 81-127, up to its first await
Receive ==
  /\ pxPc = "idle"
  /\ Len(received) < MaxRequests
  /\ \E req \in ProxyRequests :
       LET n == Len(received) + 1
       IN /\ received' = Append(received, req)
          /\ IF req.method = "OPTIONS"
               THEN /\ answers' = Append(answers, Answer(n, 204, ""))
                    /\ UNCHANGED pxPc
               ELSE IF StartsWith(req.pathname, ApiSlashPrefix)
                 THEN IF ApiKeyMissing(req.apiKey)
                        THEN /\ answers' = Append(answers, Answer(n, 401, "API key required"))
                             /\ UNCHANGED pxPc
                        ELSE /\ pxPc' = "awaitBody"
                             /\ UNCHANGED answers
                 ELSE /\ \E status \in {200, 404} :
                           answers' = Append(answers, Answer(n, status, ""))
                      /\ UNCHANGED pxPc
  /\ UNCHANGED <<offProxy, upstream>>

\* the body of the request has been read: fetch is called, lines 22-39
BodyRead ==
  /\ pxPc = "awaitBody"
  /\ upstream' = Append(upstream, UpstreamRequest(Len(received), received[Len(received)]))
  /\ pxPc' = "awaitFetch"
  /\ UNCHANGED <<offProxy, received, answers>>

\* reading the body of the request fails: the error leaves proxyRequest
\* before its try block, and the request is never answered
BodyFails ==
  /\ pxPc = "awaitBody"
  /\ pxPc' = "idle"
  /\ UNCHANGED <<offProxy, received, answers, upstream>>

\* fetch rejects: the catch block, lines 75-78
UpstreamRejects ==
  /\ pxPc = "awaitFetch"
  /\ answers' = Append(answers, Answer(Len(received), 500, "fetch failed"))
  /\ pxPc' = "idle"
  /\ UNCHANGED <<offProxy, received, upstream>>

\* fetch resolves: with an event stream the head is written and the pump
\* starts, lines 42-63; otherwise the text of the response is awaited
UpstreamResolves ==
  /\ pxPc = "awaitFetch"
  /\ \E sse \in BOOLEAN :
       IF sse
         THEN /\ answers' = Append(answers, Answer(Len(received), 200, ""))
              /\ pxPc' = "pumping"
         ELSE /\ pxPc' = "awaitText"
              /\ UNCHANGED answers
  /\ UNCHANGED <<offProxy, received, upstream>>

\* response.text() resolves: the status of the upstream response is passed
\* on, lines 67-73
TextPassedOn ==
  /\ pxPc = "awaitText"
  /\ \E status \in {200, 401, 500} :
       answers' = Append(answers, Answer(Len(received), status, ""))
  /\ pxPc' = "idle"
  /\ UNCHANGED <<offProxy, received, upstream>>

\* response.text() rejects: the catch block
TextFails ==
  /\ pxPc = "awaitText"
  /\ answers' = Append(answers, Answer(Len(received), 500, "text failed"))
  /\ pxPc' = "idle"
  /\ UNCHANGED <<offProxy, received, upstream>>

\* the pump ends, by done or by an error: res.end(), lines 52-61
PumpEnds ==
  /\ pxPc = "pumping"
  /\ pxPc' = "idle"
  /\ UNCHANGED <<offProxy, received, answers, upstream>>

NextProxy ==
  \/ Receive
  \/ BodyRead
  \/ BodyFails
  \/ UpstreamRejects
  \/ UpstreamResolves
  \/ TextPassedOn
  \/ TextFails
  \/ PumpEnds

InitProxy == InitFrom({}, {<<>>}) /\ call = DefaultCall /\ Idle

SpecProxy == InitProxy /\ [][NextProxy]_vars

TypeOK ==
  /\ pos \in 0..Len(wire)
  /\ pc \in {"suspendedStart", "awaitFetch", "awaitText", "awaitRead",
             "suspendedYield", "completed"}
  /\ fetchCalls \in 0..1
  /\ reader \in {"none", "locked", "released"}
  /\ body \in {"none", "open", "closed", "errored", "cancelled"}
  /\ idx \in 0..Len(chunks)
  /\ exit \in {"none", "fetchError", "rejected", "noBody", "done", "close",
               "readError", "return"}
  /\ lastResult \in {"none", "pending", "value", "done", "throw"}
  /\ Len(requests) = fetchCalls
  /\ chunkStart \in 0..pos
  /\ pc # "suspendedYield" => chunkStart = pos

(***************************************************************************)
(* What the frames the server sent stand for, read off their lines.        *)
(***************************************************************************)
FrameEventLines(f) == SelectSeq(f, IsEventLine)
FrameDataLines(f) == SelectSeq(f, IsDataLine)
FrameHasData(f) == Len(FrameDataLines(f)) > 0
FrameHasType(f) == Len(FrameEventLines(f)) > 0

\* the value of the last event: line of the frame, <<>> when it has none
FrameType(f) ==
  IF FrameHasType(f) THEN FrameEventLines(f)[Len(FrameEventLines(f))].value ELSE <<>>

FrameIsDone(f) == FrameType(f) = DoneType
FrameIsBare(f) == FrameHasType(f) /\ ~FrameHasData(f)

\* the values of the data: lines of the frame, joined with newlines
DataText(f) ==
  Join([i \in 1..Len(FrameDataLines(f)) |-> FrameDataLines(f)[i].value], <<NL>>)

\* the JSON texts among the payloads, with the objects they denote
PayloadTwoLines == PayloadOpen \o <<NL>> \o PayloadClose
IsJsonText(t) ==
  t \in {PayloadEmpty, PayloadMember, PayloadTwoLines, PayloadNumber, PayloadArray}
JsonValue(t) ==
  IF t = PayloadEmpty THEN EmptyObject
  ELSE IF t = PayloadNumber THEN JNumber(<<"1">>)
  ELSE IF t = PayloadArray THEN JArray(<<>>)
  ELSE JObject(<<JMember(<<"a">>, JNumber(<<"1">>))>>)

ExpectedType(f) == IF FrameHasType(f) THEN FrameType(f) ELSE ContentType

\* the event a frame with data lines stands for
ExpectedEvent(f) ==
  StreamEvent(ExpectedType(f),
              IF IsJsonText(DataText(f)) THEN JsonValue(DataText(f))
              ELSE RawObject(DataText(f)))

\* position of the first frame of type done, 0 when there is none
RECURSIVE FirstDoneFrom(_, _)
FirstDoneFrom(fs, i) ==
  IF i > Len(fs) THEN 0
  ELSE IF FrameIsDone(fs[i]) THEN i
  ELSE FirstDoneFrom(fs, i + 1)

FirstDone(fs) == FirstDoneFrom(fs, 1)

\* positions of the frames with data lines, up to the first done frame
\* among them
RECURSIVE DataFramesFrom(_, _)
DataFramesFrom(fs, i) ==
  IF i > Len(fs) THEN <<>>
  ELSE IF ~FrameHasData(fs[i]) THEN DataFramesFrom(fs, i + 1)
  ELSE IF FrameIsDone(fs[i]) THEN <<i>>
  ELSE <<i>> \o DataFramesFrom(fs, i + 1)

IsPrefix(a, b) == Len(a) <= Len(b) /\ SubSeq(b, 1, Len(a)) = a

Contains(msg, piece) == \E i \in 1..Len(msg) : msg[i] = piece

\* the events of the frames chs[i], chs[i+1], ... up to a done event
RECURSIVE EventsFrom(_, _)
EventsFrom(chs, i) ==
  IF i > Len(chs) THEN <<>>
  ELSE IF ~HasData(chs[i]) THEN EventsFrom(chs, i + 1)
  ELSE IF IsDone(chs[i]) THEN <<EventOf(chs[i])>>
  ELSE <<EventOf(chs[i])>> \o EventsFrom(chs, i + 1)

\* the events yielded when the whole response arrives as a single chunk
WholeTextEvents == EventsFrom(AllButLast(Split(wire, FrameDelimiter)), 1)

\* the generator ran until the stream ended it: the consumer did not stop
\* early and no transport error occurred
RanToEnd == exit \in {"close", "done"}

(***************************************************************************)
(* Claims.                                                                 *)
(***************************************************************************)

\* C1: for a response made of frames each terminated by a blank line, the
\* events yielded do not depend on how the text is cut into chunks: at any
\* moment they are a prefix of, and at the end they equal, the events
\* yielded when the whole text arrives as one chunk.
C1_ChunkingIndependent ==
  tail = <<>> =>
    /\ IsPrefix(yielded, WholeTextEvents)
    /\ RanToEnd => yielded = WholeTextEvents

\* a chunk ended between the two newlines of a delimiter, after an event of
\* an earlier frame was yielded
C1_Witness ==
  /\ tail = <<>>
  /\ pc = "awaitRead"
  /\ Len(yielded) >= 1
  /\ pos < Len(wire)
  /\ Len(buffer) > 0
  /\ buffer[Len(buffer)] = NL
  /\ wire[pos + 1] = NL

\* C2: when the response holds a frame of type done, with or without a data
\* line, no event is yielded from a frame after the first such frame, and a
\* generator that ran to the end of the stream yielded the done event of that
\* frame last and completed on it.
C2_StopsAtDone ==
  LET d == FirstDone(input)
  IN d # 0 =>
       /\ \A k \in 1..Len(origin) : origin[k] <= d
       /\ RanToEnd =>
            /\ exit = "done"
            /\ Len(yielded) > 0
            /\ yielded[Len(yielded)].type = DoneType
            /\ origin[Len(origin)] = d

C4_NoBody ==
  (resp.ok /\ ~resp.hasBody) =>
    /\ pc = "completed"
    /\ exit = "noBody"
    /\ Contains(error, "No response body for streaming")
    /\ error \notin {RequestFailedMessage(r) : r \in Responses}
    /\ yielded = <<>>
    /\ reader = "none"

C4_Witness ==
  /\ exit = "noBody"
  /\ resp.ok
  /\ error # NoError

\* C5: the event of a frame whose data text is not JSON has the frame's type
\* and data { raw: text }; no error comes of it; every other frame with data
\* lines yields the event it stands for, whatever precedes it, and a
\* generator that ran to the end yielded an event for each of them.
C5_MalformedPayload ==
  /\ \A k \in 1..Len(yielded) :
       LET f == input[origin[k]]
       IN IF IsJsonText(DataText(f))
            THEN yielded[k] = ExpectedEvent(f)
            ELSE yielded[k] = StreamEvent(ExpectedType(f), RawObject(DataText(f)))
  /\ error # NoError => exit \in {"fetchError", "rejected", "noBody", "readError"}
  /\ RanToEnd => origin = DataFramesFrom(input, 1)

\* a raw event was yielded and an event of a later frame after it
C5_Witness ==
  \E k \in 1..Len(yielded) :
    /\ k < Len(yielded)
    /\ yielded[k].data = RawObject(PayloadMalformed)
    /\ yielded[k + 1].data = JsonValue(PayloadMember)

\* C6: once the stream was read to its end, every frame that has an event:
\* line and no data: line, and that no done frame precedes, has yielded
\* exactly one event, { type: its type, data: {} }.
C6_BareEventEmitted ==
  exit = "close" =>
    \A o \in 1..Len(input) :
      (FrameIsBare(input[o]) /\ FirstDone(input) \in {0} \cup (o..Len(input))) =>
        /\ Cardinality({k \in 1..Len(origin) : origin[k] = o}) = 1
        /\ \A k \in 1..Len(origin) :
             origin[k] = o => yielded[k] = StreamEvent(FrameType(input[o]), EmptyObject)

\* C7: when the response is N complete frames, none of type done, and the
\* server then closes, the generator yields exactly N events and completes
\* without an error.
C7_GracefulEnd ==
  (tail = <<>> /\ FirstDone(input) = 0 /\ exit = "close") =>
    /\ Len(yielded) = Len(input)
    /\ error = NoError

C9_TransportClosedOnDone ==
  exit = "done" => body \in {"closed", "cancelled"}

\* C10: a rejected reader.read() completes the generator by throwing that
\* very error, with the events yielded so far unchanged; a completed
\* generator reads and yields nothing more; and every completed iteration
\* ended in exactly one of: a clean end, a clean end right after a done
\* event, one raised error.
CleanEnd == error = NoError /\ exit \in {"close", "return"}
CleanEndAfterDone ==
  /\ error = NoError
  /\ exit = "done"
  /\ Len(yielded) > 0
  /\ yielded[Len(yielded)].type = DoneType
RaisedError ==
  error # NoError /\ exit \in {"fetchError", "rejected", "noBody", "readError"}

C10_State ==
  /\ (streamError # NoError \/ body = "errored") =>
       /\ pc = "completed"
       /\ exit = "readError"
       /\ error = streamError
       /\ error # NoError
  /\ pc = "completed" =>
       /\ CleanEnd \/ CleanEndAfterDone \/ RaisedError
       /\ ~(CleanEnd /\ RaisedError)
       /\ ~(CleanEndAfterDone /\ RaisedError)
       /\ ~(CleanEnd /\ CleanEndAfterDone)

C10_Step ==
  /\ (pc = "awaitRead" /\ body' = "errored") =>
       (pc' = "completed" /\ yielded' = yielded /\ pos' = pos)
  /\ pc = "completed" =>
       (pc' = "completed" /\ yielded' = yielded /\ pos' = pos /\ error' = error)

C10_ReadErrorSurfaces == [](C10_State) /\ [][C10_Step]_vars

\* a read was rejected after at least one event had been yielded
C10_Witness ==
  /\ exit = "readError"
  /\ Len(yielded) >= 1
  /\ error = streamError
  /\ error # NoError

\* C11: events are yielded in the order of their frames in the stream: the
\* positions of the frames of the yielded events increase strictly, so no
\* frame yields twice, and each event is the event of the one frame at its
\* position, so no two frames are merged.
C11_ArrivalOrder ==
  /\ \A j, k \in 1..Len(origin) : j < k => origin[j] < origin[k]
  /\ Len(origin) = Len(yielded)
  /\ \A k \in 1..Len(yielded) :
       /\ origin[k] \in 1..Len(input)
       /\ FrameHasData(input[origin[k]])
       /\ yielded[k] = ExpectedEvent(input[origin[k]])

\* two different events of two frames that arrived in the same chunk
C11_Witness ==
  /\ pc = "suspendedYield"
  /\ idx >= 2
  /\ Len(yielded) >= 2
  /\ origin[Len(origin) - 1] > base
  /\ yielded[Len(yielded) - 1] # yielded[Len(yielded)]

\* the complete frames among the text received so far
ReceivedFrames == Split(SubSeq(wire, 1, pos), FrameDelimiter)
ReceivedEvents ==
  EventsFrom(SubSeq(ReceivedFrames, 1, Len(ReceivedFrames) - 1), 1)

\* C12: reader.read() is pending only when the buffer holds no complete
\* frame and the events of all complete frames received so far have been
\* yielded; between the events of one chunk no read is issued.
C12_ReadsOnlyWhenDrained ==
  /\ pc = "awaitRead" =>
       /\ chunks = <<>>
       /\ Len(Split(buffer, FrameDelimiter)) = 1
       /\ yielded = ReceivedEvents
  /\ pc = "suspendedYield" =>
       /\ IsPrefix(yielded, ReceivedEvents)
       /\ base + Len(chunks) = Len(ReceivedFrames) - 1

\* the second event of one chunk was yielded
C12_Witness ==
  /\ pc = "suspendedYield"
  /\ Len(chunks) >= 2
  /\ idx >= 2
  /\ Len(origin) >= 2
  /\ origin[Len(origin) - 1] > base

\* C13: a frame with data lines and no event: line yields an event of type
\* content.
C13_DefaultType ==
  /\ \A k \in 1..Len(yielded) :
       ~FrameHasType(input[origin[k]]) => yielded[k].type = ContentType
  /\ RanToEnd =>
       \A o \in 1..Len(input) :
         (/\ FrameHasData(input[o])
          /\ ~FrameHasType(input[o])
          /\ \A q \in 1..(o - 1) : ~(FrameIsDone(input[q]) /\ FrameHasData(input[q])))
         => \E k \in 1..Len(origin) : origin[k] = o

C13_Witness ==
  \E k \in 1..Len(yielded) :
    /\ ~FrameHasType(input[origin[k]])
    /\ FrameHasData(input[origin[k]])
    /\ yielded[k].type = ContentType

\* the data a frame's data text stands for
ExpectedData(f) ==
  IF IsJsonText(DataText(f)) THEN JsonValue(DataText(f))
  ELSE RawObject(DataText(f))

\* the frame of the k-th yielded event
FrameOfEvent(k) == input[origin[k]]

\* C14 (as stated): the type of every yielded event is the value of the
\* last event: line of its own frame, whatever lines precede that line, and
\* is content for a frame without event: line, whatever frames precede it.
C14_LastEventLineWins ==
  \A k \in 1..Len(yielded) :
    yielded[k].type =
      IF FrameHasType(FrameOfEvent(k)) THEN FrameType(FrameOfEvent(k))
      ELSE ContentType

\* C14 (amended): the type of every yielded event is the value of the last
\* event: line of its own frame when that value is not empty, and content
\* when it is empty or the frame has no event: line.
C14_LastNonEmptyEventLineWins ==
  \A k \in 1..Len(yielded) :
    yielded[k].type =
      IF FrameHasType(FrameOfEvent(k)) /\ FrameType(FrameOfEvent(k)) # <<>>
        THEN FrameType(FrameOfEvent(k))
        ELSE ContentType

\* an event: line after an earlier event: line and a data: line set the
\* type, and the next frame, without event: line, did not inherit it
C14_Witness ==
  /\ Len(yielded) >= 2
  /\ FrameOfEvent(1) = FrameEventAfterData
  /\ yielded[1].type = ToolCompleteType
  /\ FrameOfEvent(2) = FrameUntyped
  /\ yielded[2].type = ContentType

\* C15: a frame yields at most one event, and its data is built from the
\* values of all data: lines of the frame joined with newlines, in order.
C15_DataLinesJoined ==
  /\ \A j, k \in 1..Len(origin) : j < k => origin[j] < origin[k]
  /\ \A k \in 1..Len(yielded) : yielded[k].data = ExpectedData(FrameOfEvent(k))

\* a frame with two data: lines yielded one event, raw text with a newline
C15_Witness ==
  \E k \in 1..Len(yielded) :
    /\ FrameOfEvent(k) = FrameTwoDataRaw
    /\ yielded[k].data = RawObject(PayloadMalformed \o <<NL>> \o PayloadMalformed)
    /\ \A j \in 1..Len(yielded) : j # k => origin[j] # origin[k]

IsEventOrDataLine(l) == IsEventLine(l) \/ IsDataLine(l)
StripOther(f) == SelectSeq(f, IsEventOrDataLine)
HasOtherLine(f) == Len(StripOther(f)) < Len(f)

\* the event the code yields for a frame with data lines
YieldedEvent(f) ==
  StreamEvent(IF FrameHasType(f) /\ FrameType(f) # <<>> THEN FrameType(f)
              ELSE ContentType,
              ExpectedData(f))

\* C16: lines that start with neither event: nor data: change nothing: a
\* frame yields an event exactly when the frame without those lines does,
\* and the same event; no error comes of them.
C16_OtherLinesIgnored ==
  /\ \A k \in 1..Len(yielded) :
       /\ FrameHasData(StripOther(FrameOfEvent(k)))
       /\ yielded[k] = YieldedEvent(StripOther(FrameOfEvent(k)))
  /\ RanToEnd =>
       origin = DataFramesFrom([o \in 1..Len(input) |-> StripOther(input[o])], 1)
  /\ error # NoError => exit \in {"fetchError", "rejected", "noBody", "readError"}

\* a frame with an id: line and a comment line yielded its event
C16_Witness ==
  \E k \in 1..Len(yielded) :
    /\ FrameOfEvent(k) = FrameWithOther
    /\ HasOtherLine(FrameOfEvent(k))
    /\ yielded[k] = StreamEvent(DoneType, EmptyObject)

\* C18: the type of every yielded event is one of the seven event kinds.
C18_ClosedEventKinds ==
  \A k \in 1..Len(yielded) : yielded[k].type \in EventKinds

\* C19: the data of every yielded event is a mapping (a JSON object).
C19_DataIsMapping ==
  \A k \in 1..Len(yielded) : yielded[k].data.kind = "object"

\* C17: once the generator has completed, on any path, every further next()
\* resolves with done: it delivers no event, yields none of the earlier ones
\* again, issues no fetch and reads no chunk; one fetch at most is ever issued.
C17_Step ==
  pc = "completed" =>
    /\ pc' = "completed"
    /\ lastResult' = "done"
    /\ yielded' = yielded
    /\ fetchCalls' = fetchCalls
    /\ pos' = pos
    /\ reader' = reader

C17_SinglePass == [](fetchCalls <= 1) /\ [][C17_Step]_vars

\* next() was called on a generator that had completed by throwing after it
\* had yielded an event
C17_Witness ==
  /\ pc = "completed"
  /\ error # NoError
  /\ Len(yielded) >= 1
  /\ lastResult = "done"

\* the statuses after which an execution no longer changes
TerminalStatuses == {"completed", "completed_with_errors", "failed", "cancelled"}

\* C20: when waitForCompletion returns, it returns the execution of its last
\* get call, that execution has a terminal status and none polled before it
\* has, and the number of get calls is the number of polls; a poll with a
\* terminal status, failed and cancelled included, always ends in a return,
\* never in an error.
C20_ReturnsFirstTerminal ==
  /\ wpc = "returned" =>
       /\ Len(polled) >= 1
       /\ returned = polled[Len(polled)]
       /\ returned.status \in TerminalStatuses
       /\ \A i \in 1..(Len(polled) - 1) : polled[i].status \notin TerminalStatuses
       /\ getCalls = Len(polled)
       /\ raised = "none"
  /\ (Len(polled) >= 1 /\ polled[Len(polled)].status \in TerminalStatuses) =>
       wpc = "returned"
  /\ wpc # "returned" => returned = NoExecution

\* the third poll was the first with a terminal status, failed
C20_Witness ==
  /\ wpc = "returned"
  /\ getCalls = 3
  /\ returned.status = "failed"
  /\ polled[1].status = "running"

\* C21: with pollIntervalMs > 0, a waitForCompletion whose get calls all
\* resolve, each with a non-terminal status, eventually rejects with the
\* timeout error; and whenever that error is raised, the time elapsed since
\* the call exceeds timeoutMs.
C21_NoTerminalPoll ==
  \A i \in 1..Len(polled) : polled[i].status \notin TerminalStatuses

C21_BoundedLoop ==
  /\ [](raised = "timeout" => (wpc = "thrown" /\ elapsed > timeoutMs))
  /\ (pollIntervalMs > 0 /\ [](C21_NoTerminalPoll /\ raised # "get"))
       => <>(wpc = "thrown" /\ raised = "timeout")

\* the timeout was raised after three polls, none of them terminal
C21_Witness ==
  /\ wpc = "thrown"
  /\ raised = "timeout"
  /\ pollIntervalMs > 0
  /\ getCalls >= 3
  /\ C21_NoTerminalPoll

\* C27: the timeout error is raised only after at least one poll and only when
\* the most recent poll is non-terminal; a poll with a terminal status is
\* returned even when it resolved after the deadline, timeoutMs = 0 included.
C27_StatusBeforeDeadline ==
  /\ raised = "timeout" =>
       /\ Len(polled) >= 1
       /\ polled[Len(polled)].status \notin TerminalStatuses
  /\ (Len(polled) >= 1 /\ polled[Len(polled)].status \in TerminalStatuses) =>
       (wpc = "returned" /\ raised = "none")

\* with timeoutMs = 0, the first poll resolved after the deadline with a
\* terminal status and was returned
C27_Witness ==
  /\ timeoutMs = 0
  /\ wpc = "returned"
  /\ elapsed > timeoutMs
  /\ getCalls = 1

\* C22: once iteration has started, exactly one request has been handed to
\* fetch, and it stays the only one: POST to
\* {baseUrl}/v1/agents/{agentId}/conversations/{conversationId}/messages with
\* the three headers, and a body that parses as JSON to the object with the
\* members content, the content given, and stream, true, and no other.
C22_Started ==
  \/ pc \in {"awaitFetch", "awaitText", "awaitRead", "suspendedYield"}
  \/ pc = "completed" /\ exit # "return"

C22_ExpectedBody ==
  JObject(<<JMember(<<"c", "o", "n", "t", "e", "n", "t">>, JString(call.content)),
            JMember(<<"s", "t", "r", "e", "a", "m">>, JLiteral("true"))>>)

C22_IsStreamRequest(r) ==
  /\ r.url = call.baseUrl \o "/v1/agents/" \o call.agentId \o "/conversations/"
               \o call.conversationId \o "/messages"
  /\ r.method = "POST"
  /\ r.headers.ContentType = "application/json"
  /\ r.headers.Accept = "text/event-stream"
  /\ r.headers.Authorization = "Bearer " \o call.apiKey
  /\ JSONParse(r.body).ok
  /\ JSONParse(r.body).value = C22_ExpectedBody

C22_OneRequest ==
  /\ Len(requests) <= 1
  /\ C22_Started => Len(requests) = 1
  /\ \A i \in 1..Len(requests) : C22_IsStreamRequest(requests[i])

\* the stream ran to its done frame on the one request of the call, whose
\* content holds a quote and a backslash
C22_Witness ==
  /\ pc = "completed"
  /\ exit = "done"
  /\ Len(requests) = 1
  /\ call.content = <<"\"", "\\">>
  /\ requests[1].url = "https://api.nimblebrain.ai/v1/agents/agent-1/conversations/conv-1/messages"
  /\ requests[1].headers.Authorization = "Bearer nb_test_2"
  /\ requests[1].body =
       <<"{", "\"", "c", "o", "n", "t", "e", "n", "t", "\"", ":", "\"", "\\", "\"",
         "\\", "\\", "\"", ",", "\"", "s", "t", "r", "e", "a", "m", "\"", ":",
         "t", "r", "u", "e", "}">>

\* the text that follows the last delimiter of s, the delimiters being
\* taken from left to right; all of s when it holds none
RECURSIVE AfterLastDelimiter(_, _, _)
AfterLastDelimiter(s, start, i) ==
  IF i + 1 > Len(s) THEN SubSeq(s, start, Len(s))
  ELSE IF s[i] = NL /\ s[i + 1] = NL THEN AfterLastDelimiter(s, i + 2, i + 2)
  ELSE AfterLastDelimiter(s, start, i + 1)

HasDelimiter(s) == \E i \in 1..Len(s) : MatchAt(s, FrameDelimiter, i)

\* C23: whenever reader.read() is pending, buffer is exactly the received
\* text that follows the last delimiter received (the delimiters taken from
\* left to right); it holds no delimiter and no text from before one.
C23_BufferIsOpenSuffix ==
  pc = "awaitRead" =>
    /\ buffer = AfterLastDelimiter(SubSeq(wire, 1, pos), 1, 1)
    /\ ~HasDelimiter(buffer)

\* a read is pending after a delimiter and then a lone newline were received:
\* the buffer is that newline
C23_Witness ==
  /\ pc = "awaitRead"
  /\ pos = Len(wire)
  /\ Len(input) >= 1
  /\ tail = <<NL>>
  /\ buffer = <<NL>>
  /\ Len(yielded) >= 1

\* number of characters of the response up to and including the delimiter
\* of frame f
FrameEnd(f) == Len(RenderFrames(SubSeq(input, 1, f)))

\* the frames whose events the generator yields when it is not stopped
YieldingFrames == DataFramesFrom(input, 1)

\* C24: every yielded event is that of a frame whose delimiter has been
\* received in full and, when the event is the latest one and the generator
\* is suspended at its yield, whose second newline came in the latest chunk;
\* no frame yields twice; and when the next read is pending every frame
\* received in full, up to the first done, has yielded its event.
C24_YieldedAtDelimiter ==
  /\ \A k \in 1..Len(origin) :
       /\ origin[k] \in 1..Len(input)
       /\ FrameEnd(origin[k]) <= pos
       /\ \A j \in 1..(k - 1) : origin[j] < origin[k]
  /\ pc = "suspendedYield" =>
       /\ Len(origin) >= 1
       /\ chunkStart < FrameEnd(origin[Len(origin)])
  /\ pc = "awaitRead" =>
       \A i \in 1..Len(YieldingFrames) :
         FrameEnd(YieldingFrames[i]) <= pos =>
           (i <= Len(origin) /\ origin[i] = YieldingFrames[i])

\* the two newlines of the delimiter of the second frame came in different
\* chunks, the second newline alone, and the event of that frame was yielded
\* on that chunk
C24_Witness ==
  /\ pc = "suspendedYield"
  /\ Len(origin) = 2
  /\ origin[2] = 2
  /\ pos = FrameEnd(2)
  /\ chunkStart = pos - 1

\* the events of the frames the server sent in full, up to the first done
CompleteFrameEvents ==
  [i \in 1..Len(YieldingFrames) |-> ExpectedEvent(input[YieldingFrames[i]])]

\* C25: on every path, the end of the body and the consumer's return
\* included, the events yielded are events of frames the server sent with
\* their delimiter, in order: text left in the buffer without a delimiter
\* never yields an event.
C25_IncompleteDiscarded ==
  /\ IsPrefix(yielded, CompleteFrameEvents)
  /\ \A k \in 1..Len(origin) : origin[k] \in 1..Len(input)
  /\ pc = "completed" /\ exit = "close" => buffer = AfterLastDelimiter(wire, 1, 1)

\* the body closed while the buffer held a done frame that lacked its
\* delimiter: the generator completed and that frame yielded nothing
C25_Witness ==
  /\ pc = "completed"
  /\ exit = "close"
  /\ Len(tail) > 1
  /\ buffer = tail
  /\ IsDone(buffer)
  /\ HasData(buffer)
  /\ Len(yielded) = 1
  /\ lastResult = "done"

\* a frame that is one `event: <type>` line, the type a name (not empty, no
\* white space at its start), and one `data: <JSON object>` line
C26_TypedObjectFrame(f) ==
  /\ Len(f) = 2
  /\ IsEventLine(f[1]) /\ f[1].sep = <<" ">>
  /\ f[1].value # <<>> /\ ~IsSpace(f[1].value[1])
  /\ IsDataLine(f[2]) /\ f[2].sep = <<" ">>
  /\ JSONParse(f[2].value).ok
  /\ JSONParse(f[2].value).value.kind = "object"

\* every frame of the response is of that form and a done frame, if there is
\* one, is the last frame
C26_Conforms ==
  /\ \A i \in 1..Len(input) : C26_TypedObjectFrame(input[i])
  /\ \A i \in 1..(Len(input) - 1) : ~FrameIsDone(input[i])

\* C26: for a response of conforming frames, however each of the two
\* generators receives it in chunks, the events streamMessage has yielded are
\* always a prefix of those MessagesAPI.stream yielded when iterated to its
\* end, and are the same events once streamMessage has read to the close.
C26_SameEvents ==
  (C26_Conforms /\ SmTurn) =>
    /\ IsPrefix(smYielded, yielded)
    /\ (smPc = "completed" /\ smExit = "close") => smYielded = yielded

\* both generators read to the end a response of a content frame and a done
\* frame, in chunks that differ, and yielded the same two events
C26_Witness ==
  /\ C26_Conforms
  /\ Len(input) = 2
  /\ FrameIsDone(input[2])
  /\ SmTurn
  /\ smPc = "completed"
  /\ smExit = "close"
  /\ Len(smYielded) = 2
  /\ smYielded = yielded

\* C28: whenever both are held, the conversation is one that was created
\* for the agent in currentAgent, and every call of sdk.messages.stream names
\* an agent and a conversation created for that agent.
C28_ConversationOfCurrentAgent ==
  /\ (conversation # NoConversation /\ currentAgent # NoAgent) =>
       conversation.agentId = currentAgent
  /\ \A i \in 1..Len(streams) : streams[i].conversation.agentId = streams[i].agentId

\* C29: once sendMessage has finished consuming a stream, on any path, the
\* flag isStreaming is false and no assistant placeholder in the list has
\* isStreaming = true.
C29_StreamingCleared ==
  (sendPc = "idle" /\ Len(streams) >= 1) =>
    /\ ~isStreaming
    /\ \A i \in 1..Len(messages) :
         messages[i].role = "assistant" => ~messages[i].isStreaming

C30_IsApi(req) == StartsWith(req.pathname, ApiSlashPrefix) /\ req.method # "OPTIONS"

\* C30: every upstream request was issued for an /api/ request that carried
\* an X-API-Key header, and carries that key as its bearer credential; every
\* /api/ request without the header, OPTIONS apart, is answered with status
\* 401 and the error 'API key required', and with nothing else.
C30_KeyRequired ==
  /\ \A j \in 1..Len(upstream) :
       LET req == received[upstream[j].for]
       IN /\ C30_IsApi(req)
          /\ req.apiKey # Undefined
          /\ upstream[j].authorization = "Bearer " \o req.apiKey
  /\ \A i \in 1..Len(received) :
       (C30_IsApi(received[i]) /\ received[i].apiKey = Undefined) =>
         /\ \E k \in 1..Len(answers) : answers[k] = Answer(i, 401, "API key required")
         /\ \A k \in 1..Len(answers) :
              answers[k].for = i => answers[k] = Answer(i, 401, "API key required")

\* a POST to /api/a?q without the header was answered with 401, and then the
\* same request with a key went upstream with that key
C30_Witness ==
  /\ Len(received) = 2
  /\ received[1].apiKey = Undefined
  /\ received[1].method = "POST"
  /\ C30_IsApi(received[1])
  /\ answers[1] = Answer(1, 401, "API key required")
  /\ Len(upstream) = 1
  /\ upstream[1].for = 2
  /\ upstream[1].authorization = "Bearer nb_test_2"
  /\ upstream[1].url = API_BASE \o <<"/", "a", "?", "q">>

====
